---- MODULE Spec2Model ----
(***************************************************************************)
(* Endpoint URL registry of the LittleBugShop API test framework.          *)
(*                                                                         *)
(* Two variants of the registry exist in the repository:                   *)
(*   - the class-based one (utils/urlBuilder.ts): UrlBuilder with one lazy *)
(*     getter per resource group, each returning a fresh *Endpoints object;*)
(*   - the function-based one (utils/urlBuilders/littleBugShopUrlBuilder.ts*)
(*     + enpoints/littleBugShopEnpoints.ts): an eager nested object built  *)
(*     by createLittleBugShopEndpoints(buildUrl).                          *)
(*                                                                         *)
(* URLs are TLC strings; JavaScript values that may be undefined, a string *)
(* or a number are records with a "type" field.                            *)
(***************************************************************************)
EXTENDS Integers, Sequences, FiniteSets, TLC

VARIABLES BASE_URL, config, registry, constructed, last,
          instances, resolved, obtained,
          pc, expectedStatus, maxAttempts, delayMs, attempt, lastResponse,
          settled, trace, outcome,
          ENV, phase, describeConfig, testConfig, annotations, allureCalls,
          failCalls, continuation, direct,
          factoryCall, factoryOverrides, factoryResult,
          clientPc, clientCalls, clientTrace, clientOutcome,
          serverArithmetic, cartItems, products, cartTests

\* the registry held by a single test
registryVars == <<registry, constructed, last>>

\* the registries held by the parallel workers
workerVars == <<instances, resolved, obtained>>

\* one call of retryUntilStatus
retryVars == <<pc, expectedStatus, maxAttempts, delayMs, attempt, lastResponse,
               settled, trace, outcome>>

\* one test that uses TestDecorators, and what the reporters recorded for it
decoratorVars == <<ENV, phase, describeConfig, testConfig, annotations,
                   allureCalls, failCalls, continuation, direct>>

\* one call of a test-data factory
factoryVars == <<factoryCall, factoryOverrides, factoryResult>>

\* the calls made on one ApiClient, and what was observed of them
clientVars == <<clientPc, clientCalls, clientTrace, clientOutcome>>

\* the server (how it multiplies, the cart of the account 'User', its
\* products) and the cart tests the workers run
cartVars == <<serverArithmetic, cartItems, products, cartTests>>

vars == <<BASE_URL, config, registryVars, workerVars, retryVars, decoratorVars,
          factoryVars, clientVars, cartVars>>

\* what the steps of each part of the framework leave alone
otherThanRegistry ==
  <<BASE_URL, config, workerVars, retryVars, decoratorVars, factoryVars,
    clientVars, cartVars>>

otherThanWorkers ==
  <<BASE_URL, config, registryVars, retryVars, decoratorVars, factoryVars,
    clientVars, cartVars>>

otherThanRetry ==
  <<BASE_URL, config, registryVars, workerVars, decoratorVars, factoryVars,
    clientVars, cartVars>>

otherThanDecorators ==
  <<BASE_URL, config, registryVars, workerVars, retryVars, factoryVars,
    clientVars, cartVars>>

otherThanFactories ==
  <<BASE_URL, config, registryVars, workerVars, retryVars, decoratorVars,
    clientVars, cartVars>>

otherThanClient ==
  <<BASE_URL, config, registryVars, workerVars, retryVars, decoratorVars,
    factoryVars, cartVars>>

otherThanCart ==
  <<BASE_URL, config, registryVars, workerVars, retryVars, decoratorVars,
    factoryVars, clientVars>>

(***************************************************************************)
(* Bounds                                                                  *)
(***************************************************************************)
\* numeric path arguments are 0..MaxId and the documented sample 123
MaxId == 1
\* number of factory calls in one run
MaxConstructs == 2
\* number of parallel workers
NumWorkers == 2
\* largest maxAttempts handed to retryUntilStatus
MaxAttempts == 3
\* number of calls made on one ApiClient
MaxCalls == 2
\* number of decorators the test body calls besides setupTest
MaxDirectCalls == 1

(***************************************************************************)
(* JavaScript values and string helpers                                    *)
(***************************************************************************)
Undefined == [type |-> "undefined"]

Str(s) == [type |-> "string", val |-> s]

Num(n) == [type |-> "number", val |-> n]

Digit(d) ==
  CASE d = 0 -> "0" [] d = 1 -> "1" [] d = 2 -> "2" [] d = 3 -> "3"
    [] d = 4 -> "4" [] d = 5 -> "5" [] d = 6 -> "6" [] d = 7 -> "7"
    [] d = 8 -> "8" [] d = 9 -> "9"

RECURSIVE NumToString(_)
\* Number.prototype.toString for an integer: a minus sign when it is
\* negative, then its decimal digits
NumToString(n) ==
  IF n < 0 THEN "-" \o NumToString(0 - n)
  ELSE IF n < 10 THEN Digit(n)
  ELSE NumToString(n \div 10) \o Digit(n % 10)

\* `${v}` : the string form of a value inside a template literal
TemplateString(v) ==
  CASE v.type = "undefined" -> "undefined"
    [] v.type = "string" -> v.val
    [] v.type = "number" -> NumToString(v.val)

\* JavaScript truthiness: undefined, "" and 0 are falsy, every object and
\* array is truthy
Truthy(v) ==
  CASE v.type = "undefined" -> FALSE
    [] v.type = "string" -> v.val # ""
    [] v.type = "number" -> v.val # 0
    [] v.type \in {"object", "array"} -> TRUE

\* a || b
Or(a, b) == IF Truthy(a) THEN a ELSE b

\* completion of a call: it returns a value, or it throws one
Normal(v) == [completion |-> "normal", value |-> v]

Throw(e) == [completion |-> "throw", value |-> e]

StartsWith(s, p) == Len(p) <= Len(s) /\ SubSeq(s, 1, Len(p)) = p

EndsWith(s, p) == Len(p) <= Len(s) /\ SubSeq(s, Len(s) - Len(p) + 1, Len(s)) = p

Contains(s, p) ==
  \E i \in 1..(Len(s) + 1) :
    i + Len(p) - 1 <= Len(s) /\ SubSeq(s, i, i + Len(p) - 1) = p

StripPrefix(s, p) == IF StartsWith(s, p) THEN SubSeq(s, Len(p) + 1, Len(s)) ELSE s

(***************************************************************************)
(* Inputs                                                                  *)
(***************************************************************************)
\* process.env.BASE_URL: unset, empty or set
EnvValues == {Undefined, Str(""), Str("http://localhost:3000")}

\* the optional baseUrl argument handed to the factory
BaseUrlArgs ==
  {Undefined, Str(""), Str("https://staging.example.com"), Str("not a url")}

\* path arguments (number | string)
Ids == {Num(n) : n \in 0..MaxId} \cup {Num(123)}
         \cup {Str("123"), Str(""), Str("a?b"), Str("b/")}

ArgTuples(arity) ==
  CASE arity = 0 -> {<<>>}
    [] arity = 1 -> {<<a>> : a \in Ids}
    [] arity = 2 -> {<<a, b>> : a \in Ids, b \in Ids}

(***************************************************************************)
(* Class-based variant: the *Endpoints classes                             *)
(* An object is the record of its fields; a method is an operator on it.   *)
(***************************************************************************)
UsersEndpoints(basePath) == [basePath |-> basePath \o "/Users"]

\* admin = { users, getUserById, updateUser, resetPassword }
UsersEndpointsAdmin(this, op, a) ==
  CASE op = "admin.users" -> this.basePath \o "/admin/users"
    [] op = "admin.getUserById" ->
         this.basePath \o "/admin/users/" \o TemplateString(a[1])
    [] op = "admin.updateUser" ->
         this.basePath \o "/admin/users/" \o TemplateString(a[1])
    [] op = "admin.resetPassword" ->
         this.basePath \o "/admin/users/" \o TemplateString(a[1])
           \o "/reset-password"

UsersEndpointsCall(this, op, a) ==
  CASE op = "register" -> this.basePath \o "/register"
    [] op = "login" -> this.basePath \o "/login"
    [] op = "logout" -> this.basePath \o "/logout"
    [] op = "getById" -> this.basePath \o "/" \o TemplateString(a[1])
    [] OTHER -> UsersEndpointsAdmin(this, op, a)

\* variant: the group root is declared with a trailing slash
ProductsEndpointsTrailingSlash(basePath) ==
  [basePath |-> basePath \o "/Products/"]

ProductsEndpoints(basePath) == [basePath |-> basePath \o "/Products"]

ProductsEndpointsCall(this, op, a) ==
  CASE op = "list" -> this.basePath
    [] op = "create" -> this.basePath
    [] op = "getById" -> this.basePath \o "/" \o TemplateString(a[1])
    [] op = "update" -> this.basePath \o "/" \o TemplateString(a[1])
    [] op = "delete" -> this.basePath \o "/" \o TemplateString(a[1])
    [] op = "availability" ->
         this.basePath \o "/" \o TemplateString(a[1]) \o "/availability"
    [] op = "stock" -> this.basePath \o "/" \o TemplateString(a[1]) \o "/stock"
    [] op = "increaseStock" ->
         this.basePath \o "/" \o TemplateString(a[1]) \o "/stock/increase"
    [] op = "decreaseStock" ->
         this.basePath \o "/" \o TemplateString(a[1]) \o "/stock/decrease"

CartEndpoints(basePath) == [basePath |-> basePath \o "/Cart"]

CartEndpointsCall(this, op, a) ==
  CASE op = "get" -> this.basePath
    [] op = "clear" -> this.basePath
    [] op = "addItem" -> this.basePath \o "/items"
    [] op = "updateItem" -> this.basePath \o "/items/" \o TemplateString(a[1])
    [] op = "removeItem" -> this.basePath \o "/items/" \o TemplateString(a[1])
    [] op = "checkout" -> this.basePath \o "/checkout"
    [] op = "applyCoupon" -> this.basePath \o "/apply-coupon"
    [] op = "removeCoupon" -> this.basePath \o "/remove-coupon"

OrdersEndpoints(basePath) == [basePath |-> basePath \o "/Orders"]

OrdersEndpointsCall(this, op, a) ==
  CASE op = "create" -> this.basePath \o "/create"
    [] op = "place" -> this.basePath \o "/place"
    [] op = "list" -> this.basePath
    [] op = "myOrders" -> this.basePath \o "/my-orders"
    [] op = "getById" -> this.basePath \o "/" \o TemplateString(a[1])
    [] op = "delete" -> this.basePath \o "/" \o TemplateString(a[1])
    [] op = "updateStatus" ->
         this.basePath \o "/" \o TemplateString(a[1]) \o "/status"
    [] op = "pending" -> this.basePath \o "/pending"
    [] op = "cancel" -> this.basePath \o "/" \o TemplateString(a[1]) \o "/cancel"

\* variant: the profile root is capitalised like the Users root
ProfileEndpointsCapitalised(basePath) ==
  [basePath |-> basePath \o "/Users/profile"]

ProfileEndpoints(basePath) == [basePath |-> basePath \o "/users/profile"]

\* addresses = { add, update, delete, setDefault }
ProfileEndpointsAddresses(this, op, a) ==
  CASE op = "addresses.add" -> this.basePath \o "/addresses"
    [] op = "addresses.update" ->
         this.basePath \o "/addresses/" \o TemplateString(a[1])
    [] op = "addresses.delete" ->
         this.basePath \o "/addresses/" \o TemplateString(a[1])
    [] op = "addresses.setDefault" ->
         this.basePath \o "/addresses/" \o TemplateString(a[1])
           \o "/set-default"

ProfileEndpointsCall(this, op, a) ==
  CASE op = "get" -> this.basePath
    [] op = "update" -> this.basePath
    [] op = "changePassword" -> this.basePath \o "/change-password"
    [] OTHER -> ProfileEndpointsAddresses(this, op, a)

ReviewsEndpoints(basePath) == [basePath |-> basePath]

\* variant: the review moderation list is rooted at /reviews
ReviewsEndpointsAdminUnderReviews(this, op, a) ==
  CASE op = "admin.list" -> this.basePath \o "/reviews"

\* admin = { list }
ReviewsEndpointsAdmin(this, op, a) ==
  CASE op = "admin.list" -> this.basePath \o "/admin/reviews"

\* variant: the two-parameter operations fill the segments in swapped order
ReviewsEndpointsCallSwapped(this, op, a) ==
  CASE op = "create" ->
         this.basePath \o "/products/" \o TemplateString(a[1]) \o "/Reviews"
    [] op = "list" ->
         this.basePath \o "/products/" \o TemplateString(a[1]) \o "/Reviews"
    [] op = "getById" ->
         this.basePath \o "/products/" \o TemplateString(a[2]) \o "/Reviews/"
           \o TemplateString(a[1])
    [] op = "delete" ->
         this.basePath \o "/products/" \o TemplateString(a[2]) \o "/Reviews/"
           \o TemplateString(a[1])
    [] op = "myReview" ->
         this.basePath \o "/products/" \o TemplateString(a[1]) \o "/my-review"
    [] op = "markHelpful" ->
         this.basePath \o "/reviews/" \o TemplateString(a[1]) \o "/helpful"
    [] op = "moderate" ->
         this.basePath \o "/products/" \o TemplateString(a[2]) \o "/Reviews/"
           \o TemplateString(a[1]) \o "/moderate"
    [] OTHER -> ReviewsEndpointsAdmin(this, op, a)

ReviewsEndpointsCall(this, op, a) ==
  CASE op = "create" ->
         this.basePath \o "/products/" \o TemplateString(a[1]) \o "/Reviews"
    [] op = "list" ->
         this.basePath \o "/products/" \o TemplateString(a[1]) \o "/Reviews"
    [] op = "getById" ->
         this.basePath \o "/products/" \o TemplateString(a[1]) \o "/Reviews/"
           \o TemplateString(a[2])
    [] op = "delete" ->
         this.basePath \o "/products/" \o TemplateString(a[1]) \o "/Reviews/"
           \o TemplateString(a[2])
    [] op = "myReview" ->
         this.basePath \o "/products/" \o TemplateString(a[1]) \o "/my-review"
    [] op = "markHelpful" ->
         this.basePath \o "/reviews/" \o TemplateString(a[1]) \o "/helpful"
    [] op = "moderate" ->
         this.basePath \o "/products/" \o TemplateString(a[1]) \o "/Reviews/"
           \o TemplateString(a[2]) \o "/moderate"
    [] OTHER -> ReviewsEndpointsAdmin(this, op, a)

WishlistEndpoints(basePath) == [basePath |-> basePath \o "/Wishlist"]

WishlistEndpointsCall(this, op, a) ==
  CASE op = "get" -> this.basePath
    [] op = "clear" -> this.basePath
    [] op = "addItem" -> this.basePath \o "/items/" \o TemplateString(a[1])
    [] op = "removeItem" -> this.basePath \o "/items/" \o TemplateString(a[1])
    [] op = "checkItem" -> this.basePath \o "/check/" \o TemplateString(a[1])
    [] op = "moveToCart" -> this.basePath \o "/move-to-cart"
    [] op = "count" -> this.basePath \o "/count"

PaymentMethodsEndpoints(basePath) == [basePath |-> basePath \o "/payment-methods"]

PaymentMethodsEndpointsCall(this, op, a) ==
  CASE op = "list" -> this.basePath
    [] op = "add" -> this.basePath
    [] op = "getById" -> this.basePath \o "/" \o TemplateString(a[1])
    [] op = "update" -> this.basePath \o "/" \o TemplateString(a[1])
    [] op = "delete" -> this.basePath \o "/" \o TemplateString(a[1])
    [] op = "setDefault" ->
         this.basePath \o "/" \o TemplateString(a[1]) \o "/set-default"

PaymentsEndpoints(basePath) == [basePath |-> basePath \o "/payments"]

\* admin = { transactions, statistics }
PaymentsEndpointsAdmin(this, op, a) ==
  CASE op = "admin.transactions" -> this.basePath \o "/admin/transactions"
    [] op = "admin.statistics" -> this.basePath \o "/admin/statistics"

PaymentsEndpointsCall(this, op, a) ==
  CASE op = "process" -> this.basePath \o "/process"
    [] op = "transactions" -> this.basePath \o "/transactions"
    [] op = "getTransaction" ->
         this.basePath \o "/transactions/" \o TemplateString(a[1])
    [] op = "refund" -> this.basePath \o "/refund"
    [] OTHER -> PaymentsEndpointsAdmin(this, op, a)

CouponsEndpoints(basePath) == [basePath |-> basePath \o "/Coupons"]

\* admin = { list, create, update, delete, usage }
CouponsEndpointsAdmin(this, op, a) ==
  CASE op = "admin.list" -> this.basePath \o "/admin/coupons"
    [] op = "admin.create" -> this.basePath \o "/admin/coupons"
    [] op = "admin.update" ->
         this.basePath \o "/admin/coupons/" \o TemplateString(a[1])
    [] op = "admin.delete" ->
         this.basePath \o "/admin/coupons/" \o TemplateString(a[1])
    [] op = "admin.usage" ->
         this.basePath \o "/admin/coupons/" \o TemplateString(a[1]) \o "/usage"

RECURSIVE PercentEncode(_)
\* encodeURIComponent restricted to the characters of the inputs used here
PercentEncode(s) ==
  IF s = "" THEN ""
  ELSE LET c == SubSeq(s, 1, 1)
           e == CASE c = "?" -> "%3F" [] c = "/" -> "%2F" [] OTHER -> c
       IN  e \o PercentEncode(SubSeq(s, 2, Len(s)))

\* variant: the coupon code is percent-encoded before it is inserted
CouponsEndpointsValidateEncoded(this, a) ==
  this.basePath \o "/validate/" \o PercentEncode(TemplateString(a[1]))

\* validate(code: string)
CouponsEndpointsValidate(this, a) ==
  this.basePath \o "/validate/" \o TemplateString(a[1])

CouponsEndpointsCall(this, op, a) ==
  CASE op = "validate" -> CouponsEndpointsValidate(this, a)
    [] OTHER -> CouponsEndpointsAdmin(this, op, a)

\* variant: the session root is built from the configured base URL instead
\* of the base path handed to the constructor
SessionEndpointsFromConfig(basePath) ==
  [basePath |-> config.baseUrl \o "/api/Session"]

SessionEndpoints(basePath) == [basePath |-> basePath \o "/Session"]

SessionEndpointsCall(this, op, a) ==
  CASE op = "get" -> this.basePath

(***************************************************************************)
(* Class-based variant: declared operations <<group, operation, arity>>    *)
(***************************************************************************)
ClassSignatures ==
  { <<"Users", "register", 0>>, <<"Users", "login", 0>>,
    <<"Users", "logout", 0>>, <<"Users", "getById", 1>>,
    <<"Users", "admin.users", 0>>, <<"Users", "admin.getUserById", 1>>,
    <<"Users", "admin.updateUser", 1>>, <<"Users", "admin.resetPassword", 1>>,
    <<"Products", "list", 0>>, <<"Products", "create", 0>>,
    <<"Products", "getById", 1>>, <<"Products", "update", 1>>,
    <<"Products", "delete", 1>>, <<"Products", "availability", 1>>,
    <<"Products", "stock", 1>>, <<"Products", "increaseStock", 1>>,
    <<"Products", "decreaseStock", 1>>,
    <<"Cart", "get", 0>>, <<"Cart", "clear", 0>>, <<"Cart", "addItem", 0>>,
    <<"Cart", "updateItem", 1>>, <<"Cart", "removeItem", 1>>,
    <<"Cart", "checkout", 0>>, <<"Cart", "applyCoupon", 0>>,
    <<"Cart", "removeCoupon", 0>>,
    <<"Orders", "create", 0>>, <<"Orders", "place", 0>>,
    <<"Orders", "list", 0>>, <<"Orders", "myOrders", 0>>,
    <<"Orders", "getById", 1>>, <<"Orders", "delete", 1>>,
    <<"Orders", "updateStatus", 1>>, <<"Orders", "pending", 0>>,
    <<"Orders", "cancel", 1>>,
    <<"Profile", "get", 0>>, <<"Profile", "update", 0>>,
    <<"Profile", "addresses.add", 0>>, <<"Profile", "addresses.update", 1>>,
    <<"Profile", "addresses.delete", 1>>,
    <<"Profile", "addresses.setDefault", 1>>,
    <<"Profile", "changePassword", 0>>,
    <<"Reviews", "create", 1>>, <<"Reviews", "list", 1>>,
    <<"Reviews", "getById", 2>>, <<"Reviews", "delete", 2>>,
    <<"Reviews", "myReview", 1>>, <<"Reviews", "markHelpful", 1>>,
    <<"Reviews", "moderate", 2>>, <<"Reviews", "admin.list", 0>>,
    <<"Wishlist", "get", 0>>, <<"Wishlist", "clear", 0>>,
    <<"Wishlist", "addItem", 1>>, <<"Wishlist", "removeItem", 1>>,
    <<"Wishlist", "checkItem", 1>>, <<"Wishlist", "moveToCart", 0>>,
    <<"Wishlist", "count", 0>>,
    <<"PaymentMethods", "list", 0>>, <<"PaymentMethods", "add", 0>>,
    <<"PaymentMethods", "getById", 1>>, <<"PaymentMethods", "update", 1>>,
    <<"PaymentMethods", "delete", 1>>, <<"PaymentMethods", "setDefault", 1>>,
    <<"Payments", "process", 0>>, <<"Payments", "transactions", 0>>,
    <<"Payments", "getTransaction", 1>>, <<"Payments", "refund", 0>>,
    <<"Payments", "admin.transactions", 0>>,
    <<"Payments", "admin.statistics", 0>>,
    <<"Coupons", "validate", 1>>, <<"Coupons", "admin.list", 0>>,
    <<"Coupons", "admin.create", 0>>, <<"Coupons", "admin.update", 1>>,
    <<"Coupons", "admin.delete", 1>>, <<"Coupons", "admin.usage", 1>>,
    <<"Session", "get", 0>> }

(***************************************************************************)
(* Class-based variant: UrlBuilder and its factory                         *)
(***************************************************************************)
\* constructor(baseUrl?) { this.baseUrl = baseUrl || config.baseUrl; }
UrlBuilder(baseUrl) == [baseUrl |-> Or(baseUrl, Str(config.baseUrl)).val]

\* new <Group>Endpoints(basePath)
EndpointsNew(group, basePath) ==
  CASE group = "Users" -> UsersEndpoints(basePath)
    [] group = "Products" -> ProductsEndpoints(basePath)
    [] group = "Cart" -> CartEndpoints(basePath)
    [] group = "Orders" -> OrdersEndpoints(basePath)
    [] group = "Profile" -> ProfileEndpoints(basePath)
    [] group = "Reviews" -> ReviewsEndpoints(basePath)
    [] group = "Wishlist" -> WishlistEndpoints(basePath)
    [] group = "PaymentMethods" -> PaymentMethodsEndpoints(basePath)
    [] group = "Payments" -> PaymentsEndpoints(basePath)
    [] group = "Coupons" -> CouponsEndpoints(basePath)
    [] group = "Session" -> SessionEndpoints(basePath)

\* variant: the getter stores the API root back into this.baseUrl
UrlBuilderGetAssigning(this, group) ==
  [this |-> [this EXCEPT !.baseUrl = this.baseUrl \o "/api"],
   ret |-> EndpointsNew(group, this.baseUrl \o "/api")]

\* get <Group>() { return new <Group>Endpoints(`${this.baseUrl}/api`); }
\* A fresh endpoints object is returned on every access and no field of
\* `this` is assigned.  The result is the pair (this after the access,
\* returned object).
UrlBuilderGet(this, group) ==
  [this |-> this, ret |-> EndpointsNew(group, this.baseUrl \o "/api")]

\* method dispatch on the endpoints object of a group
EndpointsCall(group, obj, op, a) ==
  CASE group = "Users" -> UsersEndpointsCall(obj, op, a)
    [] group = "Products" -> ProductsEndpointsCall(obj, op, a)
    [] group = "Cart" -> CartEndpointsCall(obj, op, a)
    [] group = "Orders" -> OrdersEndpointsCall(obj, op, a)
    [] group = "Profile" -> ProfileEndpointsCall(obj, op, a)
    [] group = "Reviews" -> ReviewsEndpointsCall(obj, op, a)
    [] group = "Wishlist" -> WishlistEndpointsCall(obj, op, a)
    [] group = "PaymentMethods" -> PaymentMethodsEndpointsCall(obj, op, a)
    [] group = "Payments" -> PaymentsEndpointsCall(obj, op, a)
    [] group = "Coupons" -> CouponsEndpointsCall(obj, op, a)
    [] group = "Session" -> SessionEndpointsCall(obj, op, a)

\* export function LittleBugShop(baseUrl?) { return new UrlBuilder(baseUrl); }
LittleBugShop(baseUrl) == UrlBuilder(baseUrl)

\* registry.<Group>.<op>(...a) on a UrlBuilder
UrlBuilderEval(this, group, op, a) ==
  LET g == UrlBuilderGet(this, group)
  IN  [this |-> g.this, ret |-> EndpointsCall(group, g.ret, op, a)]

(***************************************************************************)
(* Function-based variant: createLittleBugShopEndpoints and its factory    *)
(***************************************************************************)
FunctionSignatures ==
  { <<"Users", "register", 0>>, <<"Users", "login", 0>>,
    <<"Users", "logout", 0>>, <<"Users", "getById", 1>>,
    <<"Users", "admin.users", 0>>, <<"Users", "admin.getUserById", 1>>,
    <<"Users", "admin.updateUser", 1>>,
    <<"Users", "admin.resetPassword", 1>>, <<"Products", "list", 0>>,
    <<"Products", "create", 0>>, <<"Products", "getById", 1>>,
    <<"Products", "update", 1>>, <<"Products", "delete", 1>>,
    <<"Products", "availability", 1>>, <<"Products", "stock", 1>>,
    <<"Products", "increaseStock", 1>>, <<"Products", "decreaseStock", 1>>,
    <<"Cart", "get", 0>>, <<"Cart", "delete", 0>>,
    <<"Cart", "addItem", 0>>, <<"Cart", "updateItem", 1>>,
    <<"Cart", "removeItem", 1>>, <<"Cart", "checkout", 0>>,
    <<"Cart", "applyCoupon", 0>>, <<"Cart", "removeCoupon", 0>>,
    <<"Orders", "create", 0>>, <<"Orders", "place", 0>>,
    <<"Orders", "list", 0>>, <<"Orders", "myOrders", 0>>,
    <<"Orders", "getById", 1>>, <<"Orders", "delete", 1>>,
    <<"Orders", "updateStatus", 1>>, <<"Orders", "pending", 0>>,
    <<"Orders", "cancel", 1>>, <<"Profile", "get", 0>>,
    <<"Profile", "update", 0>>, <<"Profile", "addresses.add", 0>>,
    <<"Profile", "addresses.update", 1>>,
    <<"Profile", "addresses.delete", 1>>,
    <<"Profile", "addresses.setDefault", 1>>,
    <<"Profile", "changePassword", 0>>, <<"Reviews", "create", 1>>,
    <<"Reviews", "list", 1>>, <<"Reviews", "getById", 2>>,
    <<"Reviews", "delete", 2>>, <<"Reviews", "myReview", 1>>,
    <<"Reviews", "markHelpful", 1>>, <<"Reviews", "moderate", 2>>,
    <<"Reviews", "admin.list", 0>>, <<"Wishlist", "get", 0>>,
    <<"Wishlist", "clear", 0>>, <<"Wishlist", "addItem", 1>>,
    <<"Wishlist", "removeItem", 1>>, <<"Wishlist", "checkItem", 1>>,
    <<"Wishlist", "moveToCart", 0>>, <<"Wishlist", "count", 0>>,
    <<"PaymentMethods", "list", 0>>, <<"PaymentMethods", "add", 0>>,
    <<"PaymentMethods", "getById", 1>>, <<"PaymentMethods", "update", 1>>,
    <<"PaymentMethods", "delete", 1>>,
    <<"PaymentMethods", "setDefault", 1>>, <<"Payments", "process", 0>>,
    <<"Payments", "transactions", 0>>, <<"Payments", "getTransaction", 1>>,
    <<"Payments", "refund", 0>>, <<"Payments", "admin.transactions", 0>>,
    <<"Payments", "admin.statistics", 0>>, <<"Coupons", "validate", 1>>,
    <<"Coupons", "admin.list", 0>>, <<"Coupons", "admin.create", 0>>,
    <<"Coupons", "admin.update", 1>>, <<"Coupons", "admin.delete", 1>>,
    <<"Coupons", "admin.usage", 1>>, <<"Session", "get", 0>> }

\* the path handed to buildUrl by each leaf of the endpoint object
EndpointPath(group, op, a) ==
  CASE group = "Users" ->
       ( CASE op = "register" -> "/Users/register"
           [] op = "login" -> "/Users/login"
           [] op = "logout" -> "/Users/logout"
           [] op = "getById" -> "/Users/" \o TemplateString(a[1])
           [] op = "admin.users" -> "/Users/admin/users"
           [] op = "admin.getUserById" ->
                "/Users/admin/users/" \o TemplateString(a[1])
           [] op = "admin.updateUser" ->
                "/Users/admin/users/" \o TemplateString(a[1])
           [] op = "admin.resetPassword" ->
                "/Users/admin/users/" \o TemplateString(a[1])
                  \o "/reset-password" )
    [] group = "Products" ->
       ( CASE op = "list" -> "/Products"
           [] op = "create" -> "/Products"
           [] op = "getById" -> "/Products/" \o TemplateString(a[1])
           [] op = "update" -> "/Products/" \o TemplateString(a[1])
           [] op = "delete" -> "/Products/" \o TemplateString(a[1])
           [] op = "availability" ->
                "/Products/" \o TemplateString(a[1]) \o "/availability"
           [] op = "stock" -> "/Products/" \o TemplateString(a[1]) \o "/stock"
           [] op = "increaseStock" ->
                "/Products/" \o TemplateString(a[1]) \o "/stock/increase"
           [] op = "decreaseStock" ->
                "/Products/" \o TemplateString(a[1]) \o "/stock/decrease" )
    [] group = "Cart" ->
       ( CASE op = "get" -> "/Cart"
           [] op = "delete" -> "/Cart"
           [] op = "addItem" -> "/Cart/items"
           [] op = "updateItem" -> "/Cart/items/" \o TemplateString(a[1])
           [] op = "removeItem" -> "/Cart/items/" \o TemplateString(a[1])
           [] op = "checkout" -> "/Cart/checkout"
           [] op = "applyCoupon" -> "/Cart/apply-coupon"
           [] op = "removeCoupon" -> "/Cart/remove-coupon" )
    [] group = "Orders" ->
       ( CASE op = "create" -> "/Orders/create"
           [] op = "place" -> "/Orders/place"
           [] op = "list" -> "/Orders"
           [] op = "myOrders" -> "/Orders/my-orders"
           [] op = "getById" -> "/Orders/" \o TemplateString(a[1])
           [] op = "delete" -> "/Orders/" \o TemplateString(a[1])
           [] op = "updateStatus" ->
                "/Orders/" \o TemplateString(a[1]) \o "/status"
           [] op = "pending" -> "/Orders/pending"
           [] op = "cancel" -> "/Orders/" \o TemplateString(a[1]) \o "/cancel" )
    [] group = "Profile" ->
       ( CASE op = "get" -> "/users/profile"
           [] op = "update" -> "/users/profile"
           [] op = "addresses.add" -> "/users/profile/addresses"
           [] op = "addresses.update" ->
                "/users/profile/addresses/" \o TemplateString(a[1])
           [] op = "addresses.delete" ->
                "/users/profile/addresses/" \o TemplateString(a[1])
           [] op = "addresses.setDefault" ->
                "/users/profile/addresses/" \o TemplateString(a[1])
                  \o "/set-default"
           [] op = "changePassword" -> "/users/profile/change-password" )
    [] group = "Reviews" ->
       ( CASE op = "create" ->
                "/products/" \o TemplateString(a[1]) \o "/Reviews"
           [] op = "list" ->
                "/products/" \o TemplateString(a[1]) \o "/Reviews"
           [] op = "getById" ->
                "/products/" \o TemplateString(a[1]) \o "/Reviews/"
                  \o TemplateString(a[2])
           [] op = "delete" ->
                "/products/" \o TemplateString(a[1]) \o "/Reviews/"
                  \o TemplateString(a[2])
           [] op = "myReview" ->
                "/products/" \o TemplateString(a[1]) \o "/my-review"
           [] op = "markHelpful" ->
                "/reviews/" \o TemplateString(a[1]) \o "/helpful"
           [] op = "moderate" ->
                "/products/" \o TemplateString(a[1]) \o "/Reviews/"
                  \o TemplateString(a[2]) \o "/moderate"
           [] op = "admin.list" -> "/admin/reviews" )
    [] group = "Wishlist" ->
       ( CASE op = "get" -> "/Wishlist"
           [] op = "clear" -> "/Wishlist"
           [] op = "addItem" -> "/Wishlist/items/" \o TemplateString(a[1])
           [] op = "removeItem" -> "/Wishlist/items/" \o TemplateString(a[1])
           [] op = "checkItem" -> "/Wishlist/check/" \o TemplateString(a[1])
           [] op = "moveToCart" -> "/Wishlist/move-to-cart"
           [] op = "count" -> "/Wishlist/count" )
    [] group = "PaymentMethods" ->
       ( CASE op = "list" -> "/payment-methods"
           [] op = "add" -> "/payment-methods"
           [] op = "getById" -> "/payment-methods/" \o TemplateString(a[1])
           [] op = "update" -> "/payment-methods/" \o TemplateString(a[1])
           [] op = "delete" -> "/payment-methods/" \o TemplateString(a[1])
           [] op = "setDefault" ->
                "/payment-methods/" \o TemplateString(a[1]) \o "/set-default" )
    [] group = "Payments" ->
       ( CASE op = "process" -> "/payments/process"
           [] op = "transactions" -> "/payments/transactions"
           [] op = "getTransaction" ->
                "/payments/transactions/" \o TemplateString(a[1])
           [] op = "refund" -> "/payments/refund"
           [] op = "admin.transactions" -> "/payments/admin/transactions"
           [] op = "admin.statistics" -> "/payments/admin/statistics" )
    [] group = "Coupons" ->
       ( CASE op = "validate" -> "/Coupons/validate/" \o TemplateString(a[1])
           [] op = "admin.list" -> "/Coupons/admin/coupons"
           [] op = "admin.create" -> "/Coupons/admin/coupons"
           [] op = "admin.update" ->
                "/Coupons/admin/coupons/" \o TemplateString(a[1])
           [] op = "admin.delete" ->
                "/Coupons/admin/coupons/" \o TemplateString(a[1])
           [] op = "admin.usage" ->
                "/Coupons/admin/coupons/" \o TemplateString(a[1]) \o "/usage" )
    [] group = "Session" ->
       ( CASE op = "get" -> "/Session" )

\* the zero-parameter leaves, which are plain strings built at construction
EagerLeaves == {<<s[1], s[2]>> : s \in {t \in FunctionSignatures : t[3] = 0}}

\* (path: string) => `${baseUrl}/api${path}`: the arrow function is the
\* record of the variable it closes over; this operator applies it.
buildUrl(closure, path) == closure.baseUrl \o "/api" \o path

\* createLittleBugShopEndpoints(buildUrl): the zero-parameter leaves are
\* strings computed at construction; the parameterized leaves are arrow
\* functions that close over buildUrl.
createLittleBugShopEndpoints(closure) ==
  [strings |->
     [k \in EagerLeaves |-> buildUrl(closure, EndpointPath(k[1], k[2], <<>>))],
   buildUrl |-> closure]

\* export function LittleBugShop(): the base URL is the template-literal
\* string of process.env.BASE_URL; the function declares no parameter.
LittleBugShopControllers ==
  LET baseUrl == TemplateString(BASE_URL)
  IN  [BaseUrl |-> baseUrl,
       Controllers |-> createLittleBugShopEndpoints([baseUrl |-> baseUrl])]

\* registry.Controllers.<Group>.<op> (a string) or .<op>(...a) (an arrow
\* function applied): neither assigns to the registry.
ControllersEval(this, group, op, a) ==
  [this |-> this,
   ret |-> IF <<group, op>> \in EagerLeaves
             THEN this.Controllers.strings[<<group, op>>]
             ELSE buildUrl(this.Controllers.buildUrl,
                           EndpointPath(group, op, a))]

\* variant: the factory validates its argument eagerly and throws on a
\* base URL that has no http(s) scheme
LittleBugShopCallValidating(baseUrl) ==
  IF Truthy(baseUrl) /\ ~StartsWith(baseUrl.val, "http://")
                    /\ ~StartsWith(baseUrl.val, "https://")
    THEN Throw(Str("TypeError: Invalid URL"))
    ELSE Normal(LittleBugShop(baseUrl))

\* the call LittleBugShop(baseUrl) of utils/urlBuilder.ts as it completes:
\* neither the factory nor the UrlBuilder constructor validates or throws
LittleBugShopCall(baseUrl) == Normal(LittleBugShop(baseUrl))

\* the call LittleBugShop() of utils/urlBuilders/littleBugShopUrlBuilder.ts
\* as it completes: a template literal and an object literal, no throw
LittleBugShopControllersCall == Normal(LittleBugShopControllers)

(***************************************************************************)
(* State machine                                                           *)
(*   BASE_URL     process.env.BASE_URL, fixed once dotenv has run          *)
(*   config       the module-level config object, evaluated at load time   *)
(*   registry     the registry instance the test code currently holds      *)
(*   constructed  number of factory calls made so far                      *)
(*   last         the accessor call whose URL the test code holds, until   *)
(*                it hands the URL to the HTTP client                      *)
(***************************************************************************)
NoRegistry == [kind |-> "none"]

NoCall == [kind |-> "none"]

DefaultBaseUrl == "http://localhost:5052"

\* export const config = { baseUrl: process.env.BASE_URL || '...', ... }
Config(env) == [baseUrl |-> Or(env, Str(DefaultBaseUrl)).val]

Workers == 1..NumWorkers

\* no test holds a registry
RegistryIdle ==
  /\ registry = NoRegistry
  /\ constructed = 0
  /\ last = NoCall

\* no worker has started
WorkersIdle ==
  /\ instances = [w \in Workers |-> NoRegistry]
  /\ resolved = [w \in Workers |-> ""]
  /\ obtained = NoCall

Pending == [completion |-> "pending"]

\* retryUntilStatus has not been called
RetryIdle ==
  /\ pc = "idle"
  /\ expectedStatus = 0
  /\ maxAttempts = 0
  /\ delayMs = 0
  /\ attempt = 0
  /\ lastResponse = Undefined
  /\ settled = <<>>
  /\ trace = <<>>
  /\ outcome = Pending

\* a config object none of whose fields is given
NoDescribeConfig ==
  [suite |-> Undefined, suiteDescription |-> Undefined, epic |-> Undefined,
   feature |-> Undefined, story |-> Undefined]

NoTestConfig ==
  [description |-> Undefined, owner |-> Undefined, severity |-> Undefined,
   tms |-> Undefined, knownBugs |-> Undefined]

\* no test that uses TestDecorators has started
DecoratorsIdle ==
  /\ ENV = Undefined
  /\ phase = "idle"
  /\ describeConfig = NoDescribeConfig
  /\ testConfig = NoTestConfig
  /\ annotations = <<>>
  /\ allureCalls = <<>>
  /\ failCalls = <<>>
  /\ continuation = <<>>
  /\ direct = <<>>

\* no factory has been called
FactoriesIdle ==
  /\ factoryCall = [name |-> "none"]
  /\ factoryOverrides = Undefined
  /\ factoryResult = Undefined

\* new ApiClient(request): no call has been made
ClientIdle ==
  /\ clientPc = "idle"
  /\ clientCalls = 0
  /\ clientTrace = <<>>
  /\ clientOutcome = Pending

\* a worker that runs no cart test
NoCartTest ==
  [test |-> "none", pc |-> 0, retry |-> 0, productIds |-> <<>>,
   productData |-> <<>>, quantity |-> 0, items |-> <<>>,
   verdict |-> "idle", failed |-> "", failures |-> <<>>]

\* the cart of 'User' is empty, no product exists and no cart test has
\* started
CartIdle ==
  /\ serverArithmetic = "decimal"
  /\ cartItems = <<>>
  /\ products = <<>>
  /\ cartTests = [w \in Workers |-> NoCartTest]

Init ==
  /\ BASE_URL \in EnvValues
  /\ config = Config(BASE_URL)
  /\ RegistryIdle
  /\ WorkersIdle
  /\ RetryIdle
  /\ DecoratorsIdle
  /\ FactoriesIdle
  /\ ClientIdle
  /\ CartIdle

\* the base URL a registry instance is bound to
BoundBase(reg) ==
  IF reg.kind = "class" THEN reg.obj.baseUrl ELSE reg.obj.BaseUrl

Signatures(kind) ==
  IF kind = "class" THEN ClassSignatures ELSE FunctionSignatures

\* LittleBugShop(b) of utils/urlBuilder.ts
NewUrlBuilder ==
  /\ constructed < MaxConstructs
  /\ \E b \in BaseUrlArgs :
       LET c == LittleBugShopCall(b)
       IN  registry' = IF c.completion = "normal"
                         THEN [kind |-> "class", obj |-> c.value, arg |-> b]
                         ELSE [kind |-> "error", error |-> c.value, arg |-> b]
  /\ constructed' = constructed + 1
  /\ UNCHANGED <<last, otherThanRegistry>>

\* LittleBugShop(b) of utils/urlBuilders/littleBugShopUrlBuilder.ts: the
\* function declares no parameter, so an argument handed to it is dropped.
NewControllers ==
  /\ constructed < MaxConstructs
  /\ \E b \in BaseUrlArgs :
       LET c == LittleBugShopControllersCall
       IN  registry' = IF c.completion = "normal"
                         THEN [kind |-> "function", obj |-> c.value, arg |-> b]
                         ELSE [kind |-> "error", error |-> c.value, arg |-> b]
  /\ constructed' = constructed + 1
  /\ UNCHANGED <<last, otherThanRegistry>>

\* evaluation of registry.<group>.<op>(...a) on either variant
Eval(reg, group, op, a) ==
  IF reg.kind = "class"
    THEN UrlBuilderEval(reg.obj, group, op, a)
    ELSE ControllersEval(reg.obj, group, op, a)

\* the accessor expression as it completes: every method body is a single
\* return of a template literal, every leaf a string or an arrow function
\* returning one
EvalCall(reg, group, op, a) ==
  LET r == Eval(reg, group, op, a)
  IN  [this |-> r.this, completion |-> "normal", value |-> Str(r.ret)]

\* the test code evaluates one accessor expression of the given group
Access(group) ==
  /\ registry.kind \in {"class", "function"}
  /\ last = NoCall
  /\ \E sig \in Signatures(registry.kind) :
       /\ sig[1] = group
       /\ \E a \in ArgTuples(sig[3]) :
            LET c == EvalCall(registry, group, sig[2], a)
                r == [this |-> c.this, ret |-> c.value.val]
            IN  /\ registry' = [registry EXCEPT !.obj = r.this]
                /\ last' = [kind |-> registry.kind, arg |-> registry.arg,
                            gen |-> constructed, base |-> BoundBase(registry),
                            group |-> group, op |-> sig[2], args |-> a,
                            url |-> r.ret, completion |-> c.completion,
                            typeof |-> c.value.type]
  /\ UNCHANGED <<constructed, otherThanRegistry>>

Users == Access("Users")

Products == Access("Products")

Cart == Access("Cart")

Orders == Access("Orders")

Profile == Access("Profile")

Reviews == Access("Reviews")

Wishlist == Access("Wishlist")

PaymentMethods == Access("PaymentMethods")

Payments == Access("Payments")

Coupons == Access("Coupons")

Session == Access("Session")

\* the test code passes the URL on (apiClient.get(url), ...) and keeps no copy
Consume ==
  /\ last # NoCall
  /\ last' = NoCall
  /\ UNCHANGED <<registry, constructed, otherThanRegistry>>

Next ==
  \/ NewUrlBuilder
  \/ NewControllers
  \/ Users
  \/ Products
  \/ Cart
  \/ Orders
  \/ Profile
  \/ Reviews
  \/ Wishlist
  \/ PaymentMethods
  \/ Payments
  \/ Coupons
  \/ Session
  \/ Consume

Spec == Init /\ [][Next]_vars

TypeOK ==
  /\ BASE_URL \in EnvValues
  /\ constructed \in 0..MaxConstructs
  /\ registry.kind \in {"none", "class", "function"}
  /\ last.kind \in {"none", "class", "function"}

(***************************************************************************)
(* Parallel workers (playwright.config.ts: fullyParallel, workers: 4).     *)
(* Every test of every worker calls the factory itself and uses the        *)
(* registry it got; the steps of the workers interleave.                   *)
(*   instances  the registry instance each worker holds                    *)
(*   resolved   the base URL the factory resolved when the worker made its *)
(*              latest registry                                            *)
(*   obtained   the accessor call whose URL some worker holds              *)
(***************************************************************************)
\* variant: the factory keeps one module-level instance and hands it to every
\* caller
WorkerNewUrlBuilderShared(w) ==
  /\ obtained = NoCall
  /\ \E b \in BaseUrlArgs :
       LET c == LittleBugShopCall(b)
       IN  /\ c.completion = "normal"
           /\ instances' = [v \in Workers |-> [kind |-> "class", obj |-> c.value]]
           /\ resolved' = [resolved EXCEPT ![w] = Or(b, Str(config.baseUrl)).val]
  /\ UNCHANGED <<obtained, otherThanWorkers>>

\* worker w calls LittleBugShop(b) of utils/urlBuilder.ts
WorkerNewUrlBuilder(w) ==
  /\ obtained = NoCall
  /\ \E b \in BaseUrlArgs :
       LET c == LittleBugShopCall(b)
       IN  /\ c.completion = "normal"
           /\ instances' = [instances EXCEPT
                              ![w] = [kind |-> "class", obj |-> c.value]]
           /\ resolved' = [resolved EXCEPT ![w] = Or(b, Str(config.baseUrl)).val]
  /\ UNCHANGED <<obtained, otherThanWorkers>>

\* worker w calls LittleBugShop() of utils/urlBuilders/littleBugShopUrlBuilder.ts
WorkerNewControllers(w) ==
  /\ obtained = NoCall
  /\ LET c == LittleBugShopControllersCall
     IN  /\ c.completion = "normal"
         /\ instances' = [instances EXCEPT
                            ![w] = [kind |-> "function", obj |-> c.value]]
         /\ resolved' = [resolved EXCEPT ![w] = TemplateString(BASE_URL)]
  /\ UNCHANGED <<obtained, otherThanWorkers>>

\* worker w evaluates one accessor expression on the registry it holds
WorkerAccess(w) ==
  /\ instances[w].kind \in {"class", "function"}
  /\ obtained = NoCall
  /\ \E sig \in Signatures(instances[w].kind) :
       \E a \in ArgTuples(sig[3]) :
         LET c == EvalCall(instances[w], sig[1], sig[2], a)
         IN  /\ instances' = [instances EXCEPT ![w].obj = c.this]
             /\ obtained' = [kind |-> instances[w].kind, worker |-> w,
                             group |-> sig[1], op |-> sig[2], args |-> a,
                             url |-> c.value.val]
  /\ UNCHANGED <<resolved, otherThanWorkers>>

\* the worker passes the URL on to the HTTP client
WorkerConsume ==
  /\ obtained # NoCall
  /\ obtained' = NoCall
  /\ UNCHANGED <<instances, resolved, otherThanWorkers>>

WorkersNext ==
  \E w \in Workers :
    \/ WorkerNewUrlBuilder(w)
    \/ WorkerNewControllers(w)
    \/ WorkerAccess(w)
    \/ WorkerConsume

WorkersSpec == Init /\ [][WorkersNext]_vars

(***************************************************************************)
(* retryUntilStatus(fn, expectedStatus, maxAttempts, delayMs)              *)
(* An async function: it is suspended while fn's promise is pending and    *)
(* while the delay timer runs; each action below is one run of the code    *)
(* from one suspension to the next.                                        *)
(*   pc            "idle" | "fn" (awaiting fn()) | "delay" (awaiting the   *)
(*                 timer) | "done"                                         *)
(*   attempt       the loop variable                                       *)
(*   lastResponse  the local variable of that name                         *)
(*   settled       how each invocation of fn completed, in order           *)
(*   trace         the invocations of fn and the delays taken, in order    *)
(*   outcome       how the call of retryUntilStatus completed              *)
(***************************************************************************)
\* the statuses the server answers with
Statuses == {200, 201, 500}

ExpectedStatuses == {200, 201}

\* the smallest maxAttempts handed to retryUntilStatus: the parameter is a
\* number and nothing in the code rejects a negative one
MinAttempts == 0 - 1

DelayValues == {50, 1000}

\* the APIResponse the n-th invocation of fn resolved with
Response(status, n) == [type |-> "response", status |-> status, id |-> n]

\* an Error object
Error(message) == [type |-> "error", message |-> message, id |-> 0]

\* what the n-th invocation of fn may reject with
FnErrors(n) ==
  {[type |-> "error", message |-> m, id |-> n] :
     m \in {"socket hang up", "Request timed out"}}

FnEvent(n) == [ev |-> "fn", attempt |-> n, ms |-> 0]

\* the delay taken after attempt n
DelayEvent(n, ms) == [ev |-> "delay", attempt |-> n, ms |-> ms]

\* variant: the loop stops one attempt early
LoopConditionExclusive(n, max) == n < max

\* attempt <= maxAttempts
LoopCondition(n, max) == n <= max

\* variant: any 2xx status counts as the expected one
StatusMatchesAnySuccess(response, expected) ==
  response.status \div 100 = expected \div 100

\* lastResponse.status() === expectedStatus
StatusMatches(response, expected) == response.status = expected

\* variant: a delay follows every attempt with an unexpected status
DelayAfterStatusAlways(n, max) == TRUE

\* if (attempt < maxAttempts) after an unexpected status
DelayAfterStatus(n, max) == n < max

\* variant: a caught exception is never rethrown
RethrowCaughtNever(n, max) == FALSE

\* if (attempt === maxAttempts) in the catch block
RethrowCaught(n, max) == n = max

\* `${lastResponse?.status()}`
OptionalStatus(response) ==
  IF response.type = "undefined"
    THEN "undefined"
    ELSE NumToString(response.status)

FailureMessage(expected, max, response) ==
  "Failed to get status " \o NumToString(expected) \o " after "
    \o NumToString(max) \o " attempts. Last status: "
    \o OptionalStatus(response)

\* variant: when the attempts are used up the last response is returned
ExhaustedReturningLast(expected, max, response) ==
  IF response.type = "undefined"
    THEN Throw(Error(FailureMessage(expected, max, response)))
    ELSE Normal(response)

\* the statement after the loop: throw new Error(...)
Exhausted(expected, max, response) ==
  Throw(Error(FailureMessage(expected, max, response)))

\* the loop head reached with attempt = n: either fn is invoked and awaited,
\* or the loop is left and the statement after it runs
LoopHead(n, expected, max, response) ==
  /\ attempt' = n
  /\ IF LoopCondition(n, max)
       THEN /\ pc' = "fn"
            /\ trace' = Append(trace, FnEvent(n))
            /\ outcome' = outcome
       ELSE /\ pc' = "done"
            /\ trace' = trace
            /\ outcome' = Exhausted(expected, max, response)

\* the call: lastResponse is undefined, attempt = 1, first loop test
retryUntilStatus ==
  /\ pc = "idle"
  /\ \E e \in ExpectedStatuses, m \in MinAttempts..MaxAttempts,
        d \in DelayValues :
       /\ expectedStatus' = e
       /\ maxAttempts' = m
       /\ delayMs' = d
       /\ LoopHead(1, e, m, Undefined)
  /\ UNCHANGED <<lastResponse, settled, otherThanRetry>>

\* fn's promise resolves with a response
FnReturns ==
  /\ pc = "fn"
  /\ \E s \in Statuses :
       LET response == Response(s, attempt)
       IN  /\ lastResponse' = response
           /\ settled' = Append(settled, Normal(response))
           /\ IF StatusMatches(response, expectedStatus)
                THEN /\ pc' = "done"
                     /\ outcome' = Normal(response)
                     /\ UNCHANGED <<attempt, trace>>
                ELSE IF DelayAfterStatus(attempt, maxAttempts)
                  THEN /\ pc' = "delay"
                       /\ trace' = Append(trace, DelayEvent(attempt, delayMs))
                       /\ UNCHANGED <<attempt, outcome>>
                  ELSE LoopHead(attempt + 1, expectedStatus, maxAttempts,
                                response)
  /\ UNCHANGED <<expectedStatus, maxAttempts, delayMs, otherThanRetry>>

\* fn throws or its promise rejects: the catch block runs
FnThrows ==
  /\ pc = "fn"
  /\ \E error \in FnErrors(attempt) :
       /\ settled' = Append(settled, Throw(error))
       /\ IF RethrowCaught(attempt, maxAttempts)
            THEN /\ pc' = "done"
                 /\ outcome' = Throw(error)
                 /\ trace' = trace
            ELSE /\ pc' = "delay"
                 /\ trace' = Append(trace, DelayEvent(attempt, delayMs))
                 /\ outcome' = outcome
  /\ UNCHANGED <<expectedStatus, maxAttempts, delayMs, attempt, lastResponse,
                 otherThanRetry>>

\* variant: the promise of the delay is never resolved
DelayNeverElapses ==
  /\ pc = "delay"
  /\ FALSE
  /\ UNCHANGED vars

\* the timer fires: attempt++ and the loop test
DelayElapsed ==
  /\ pc = "delay"
  /\ LoopHead(attempt + 1, expectedStatus, maxAttempts, lastResponse)
  /\ UNCHANGED <<expectedStatus, maxAttempts, delayMs, lastResponse, settled,
                 otherThanRetry>>

RetryInit ==
  /\ BASE_URL = Undefined
  /\ config = Config(BASE_URL)
  /\ RegistryIdle
  /\ WorkersIdle
  /\ RetryIdle
  /\ DecoratorsIdle
  /\ FactoriesIdle
  /\ ClientIdle
  /\ CartIdle

RetryNext ==
  \/ retryUntilStatus
  \/ FnReturns
  \/ FnThrows
  \/ DelayElapsed

RetrySpec == RetryInit /\ [][RetryNext]_vars

\* every call of fn completes, by returning or by throwing
FnCompletes == WF_vars(FnReturns \/ FnThrows)

\* the timer of new Promise(resolve => setTimeout(resolve, delayMs)) fires
TimerFires == WF_vars(DelayElapsed)

\* retryUntilStatus with an fn whose calls complete
RetryLiveSpec == RetrySpec /\ FnCompletes /\ TimerFires

(***************************************************************************)
(* TestDecorators (utils/testDecorators.ts)                                *)
(* A reporter state r is the record of what the running test has got so    *)
(* far: r.annotations is test.info().annotations, r.allureCalls the calls  *)
(* made on the allure object, r.failCalls the calls of test.info().fail.   *)
(* Every decorator is an operator from a reporter state to the next one;   *)
(* the console output of markSingleKnownBug is not part of it.  The async  *)
(* methods that await (the beforeEach hook, setupTest, markKnownBugs,      *)
(* markSingleKnownBug) are sequences of calls, one per stretch of code     *)
(* that runs between two awaits; the call is suspended after each.         *)
(***************************************************************************)
Object(fields) == [type |-> "object", val |-> fields]

Array(items) == [type |-> "array", val |-> items]

\* test.info().annotations.push({ type, description })
Push(r, type, text) ==
  [r EXCEPT !.annotations = Append(@, [type |-> type, description |-> text])]

\* allure.<method>(...args)
Allure(r, method, args) ==
  [r EXCEPT !.allureCalls = Append(@, [method |-> method, args |-> args])]

\* annotations.find(ann => ann.type === type)?.description
getAnnotationValue(r, type) ==
  LET found == {i \in DOMAIN r.annotations : r.annotations[i].type = type}
  IN  IF found = {}
        THEN Undefined
        ELSE Str(r.annotations[CHOOSE i \in found :
                                 \A j \in found : i <= j].description)

description(r, text) ==
  LET r1 == Allure(Push(r, "Description", text), "description", <<text>>)
      suiteText == getAnnotationValue(r1, "Suite Description")
      fullDescription ==
        IF suiteText.type # "undefined"
          THEN "Suite Description:\n" \o TemplateString(suiteText)
                 \o "\n\nTest Case Description:\n" \o text
          ELSE "Test Case Description:\n" \o text
  IN  Allure(r1, "description", <<fullDescription>>)

owner(r, name) == Allure(Push(r, "Owner", name), "owner", <<name>>)

severity(r, level) == Allure(Push(r, "Severity", level), "severity", <<level>>)

epic(r, name) == Allure(Push(r, "Epic", name), "epic", <<name>>)

feature(r, name) == Allure(Push(r, "Feature", name), "feature", <<name>>)

story(r, name) == Allure(Push(r, "Story", name), "story", <<name>>)

tms(r, id, url) ==
  Allure(Push(r, "TMS", id \o " - " \o url), "tms", <<id, url>>)

issue(r, id, url) ==
  Allure(Push(r, "Issue", id \o " - " \o url), "issue", <<id, url>>)

suite(r, name) == Allure(Push(r, "suite", name), "suite", <<name>>)

\* the annotation only: the Allure side is left to description()
suiteDescription(r, text) == Push(r, "Suite Description", text)

\* what runs up to the next await: the decorator fn called with args
Call(fn, args) == [fn |-> fn, args |-> args]

\* if (value) { await this.<fn>(value); }
Awaited(value, fn) ==
  IF Truthy(value) THEN <<Call(fn, <<value.val>>)>> ELSE <<>>

\* variant: the hook records the suite description after the other fields
setupTestDescribeSuiteDescriptionLast(cfg) ==
  Awaited(cfg.suite, "suite")
    \o Awaited(cfg.epic, "epic")
    \o Awaited(cfg.feature, "feature")
    \o Awaited(cfg.story, "story")
    \o Awaited(cfg.suiteDescription, "suiteDescription")

\* the beforeEach hook registered by setupTestDescribe(cfg): the awaited
\* calls it makes, in order
setupTestDescribe(cfg) ==
  Awaited(cfg.suiteDescription, "suiteDescription")
    \o Awaited(cfg.suite, "suite")
    \o Awaited(cfg.epic, "epic")
    \o Awaited(cfg.feature, "feature")
    \o Awaited(cfg.story, "story")

LowerChar(c) ==
  CASE c = "A" -> "a" [] c = "B" -> "b" [] c = "C" -> "c" [] c = "D" -> "d"
    [] c = "E" -> "e" [] c = "F" -> "f" [] c = "G" -> "g" [] c = "H" -> "h"
    [] c = "I" -> "i" [] c = "J" -> "j" [] c = "K" -> "k" [] c = "L" -> "l"
    [] c = "M" -> "m" [] c = "N" -> "n" [] c = "O" -> "o" [] c = "P" -> "p"
    [] c = "Q" -> "q" [] c = "R" -> "r" [] c = "S" -> "s" [] c = "T" -> "t"
    [] c = "U" -> "u" [] c = "V" -> "v" [] c = "W" -> "w" [] c = "X" -> "x"
    [] c = "Y" -> "y" [] c = "Z" -> "z" [] OTHER -> c

RECURSIVE toLowerCase(_)
\* String.prototype.toLowerCase over the ASCII letters
toLowerCase(str) ==
  IF str = "" THEN ""
  ELSE LowerChar(SubSeq(str, 1, 1)) \o toLowerCase(SubSeq(str, 2, Len(str)))

RECURSIVE join(_, _)
\* Array.prototype.join
join(items, separator) ==
  IF items = <<>> THEN ""
  ELSE IF Len(items) = 1 THEN items[1]
  ELSE items[1] \o separator \o join(Tail(items), separator)

\* the end of markSingleKnownBug: test.info().fail(true, ...) and the push of
\* the 'Known Bug <id>' annotation
flagKnownBug(r, bugId, bugUrl) ==
  LET bugDescription ==
        "This test has been reported as failing by known bug: " \o bugId
          \o ". Bug link: " \o bugUrl
      failDescription ==
        "This test has been marked as 'known issue'. The outcome of the test will be overridden."
      r1 == [r EXCEPT !.failCalls =
               Append(@, [condition |-> TRUE, description |-> failDescription])]
  IN  Push(r1, "Known Bug " \o bugId, bugDescription)

\* await allure.issue(...); await allure.tag(...); then fail and push
markSingleKnownBug(bugId, environments) ==
  LET bugUrl == "https://your-bug-tracker.com/browse/" \o bugId
  IN  <<Call("allure.issue", <<bugId, bugUrl>>),
        Call("allure.tag", <<"Known Bug: " \o bugId \o ")">>),
        Call("flagKnownBug", <<bugId, bugUrl>>)>>

\* variant: the environments are compared as they are written
markKnownBugCaseSensitive(bug, currentEnv) ==
  IF ~Truthy(bug.environments) \/ Len(bug.environments.val) = 0
    THEN markSingleKnownBug(bug.bugId, "all environments")
    ELSE IF \E i \in DOMAIN bug.environments.val :
              bug.environments.val[i] = currentEnv
      THEN markSingleKnownBug(bug.bugId, join(bug.environments.val, ", "))
      ELSE <<>>

\* one iteration of the loop of markKnownBugs
markKnownBug(bug, currentEnv) ==
  IF ~Truthy(bug.environments) \/ Len(bug.environments.val) = 0
    THEN markSingleKnownBug(bug.bugId, "all environments")
    ELSE IF \E i \in DOMAIN bug.environments.val :
              toLowerCase(bug.environments.val[i]) = toLowerCase(currentEnv)
      THEN markSingleKnownBug(bug.bugId, join(bug.environments.val, ", "))
      ELSE <<>>

RECURSIVE markKnownBugsFrom(_, _, _)
markKnownBugsFrom(bugs, i, currentEnv) ==
  IF i > Len(bugs) THEN <<>>
  ELSE markKnownBug(bugs[i], currentEnv)
         \o markKnownBugsFrom(bugs, i + 1, currentEnv)

\* currentEnv = process.env.ENV || 'local'; for (const bug of knownBugs)
markKnownBugs(knownBugs, env) ==
  markKnownBugsFrom(knownBugs, 1, Or(env, Str("local")).val)

\* the body has a branch for description, owner, tms and knownBugs, each
\* awaited; the severity field of the config is read nowhere
setupTest(cfg, env) ==
  Awaited(cfg.description, "description")
    \o Awaited(cfg.owner, "owner")
    \o (IF Truthy(cfg.tms)
          THEN <<Call("tms", <<cfg.tms.val.id, cfg.tms.val.url>>)>>
          ELSE <<>>)
    \o (IF Truthy(cfg.knownBugs) /\ Len(cfg.knownBugs.val) > 0
          THEN markKnownBugs(cfg.knownBugs.val, env)
          ELSE <<>>)

\* the called code runs on the reporter up to its await
Run(r, call) ==
  CASE call.fn = "description" -> description(r, call.args[1])
    [] call.fn = "owner" -> owner(r, call.args[1])
    [] call.fn = "severity" -> severity(r, call.args[1])
    [] call.fn = "tms" -> tms(r, call.args[1], call.args[2])
    [] call.fn = "issue" -> issue(r, call.args[1], call.args[2])
    [] call.fn = "suiteDescription" -> suiteDescription(r, call.args[1])
    [] call.fn = "suite" -> suite(r, call.args[1])
    [] call.fn = "epic" -> epic(r, call.args[1])
    [] call.fn = "feature" -> feature(r, call.args[1])
    [] call.fn = "story" -> story(r, call.args[1])
    [] call.fn = "allure.issue" -> Allure(r, "issue", call.args)
    [] call.fn = "allure.tag" -> Allure(r, "tag", call.args)
    [] call.fn = "flagKnownBug" -> flagKnownBug(r, call.args[1], call.args[2])

\* process.env.ENV: unset, or the name of the environment under test
EnvNames == {Undefined, Str(""), Str("qa"), Str("Staging"), Str("prod")}

DescribeConfigs ==
  [suite : {Undefined, Str("Authentication")},
   suiteDescription : {Undefined, Str("Registration tests")},
   epic : {Undefined, Str("User Management")},
   feature : {Undefined, Str("User Registration")},
   story : {Undefined, Str("Register with valid data")}]

Bug(bugId, environments) == [bugId |-> bugId, environments |-> environments]

KnownBugsValues ==
  { Undefined,
    Array(<<>>),
    Array(<<Bug("BUG-1", Undefined)>>),
    Array(<<Bug("BUG-2", Array(<<"QA", "Staging">>))>>),
    Array(<<Bug("BUG-3", Array(<<>>)), Bug("BUG-4", Array(<<"LOCAL">>))>>),
    Array(<<Bug("BUG-5", Array(<<"prod">>)), Bug("BUG-6", Array(<<"qa">>)),
            Bug("BUG-7", Array(<<"dev", "STAGING">>))>>) }

\* configs without known bugs, every combination of the other fields
MetadataConfigs ==
  [description : {Undefined, Str(""), Str("Validate successful registration")},
   owner : {Undefined, Str("Farum")},
   severity : {Undefined, Str("critical"), Str("normal")},
   tms : {Undefined,
          Object([id |-> "TMS-123", url |-> "https://tms.example.com/123"])},
   knownBugs : {Undefined}]

\* configs with a list of known bugs
KnownBugsConfigs ==
  [description : {Str("Validate successful registration")},
   owner : {Undefined, Str("Farum")},
   severity : {Undefined},
   tms : {Undefined,
          Object([id |-> "TMS-123", url |-> "https://tms.example.com/123"])},
   knownBugs : KnownBugsValues \ {Undefined}]

TestConfigs == MetadataConfigs \cup KnownBugsConfigs

Reporters ==
  [annotations |-> annotations, allureCalls |-> allureCalls,
   failCalls |-> failCalls]

\* the decorators a test body calls itself, next to setupTest
DirectCalls ==
  {Call("owner", <<"other">>),
   Call("severity", <<"critical">>),
   Call("issue", <<"BUG-1", "https://b/1">>)}

\* the describe block is declared: TestDecorators.setupTestDescribe(cfg)
\* registers its beforeEach hook (a block without the call is the one whose
\* config has no field)
DescribeBlock ==
  /\ phase = "idle"
  /\ describeConfig' \in DescribeConfigs
  /\ phase' = "described"
  /\ UNCHANGED <<ENV, testConfig, annotations, allureCalls, failCalls,
                 continuation, direct, otherThanDecorators>>

\* the hook starts before the test body and runs to its first await, or to
\* its end when no field is configured
BeforeEach ==
  /\ phase = "described"
  /\ LET calls == setupTestDescribe(describeConfig)
     IN  IF calls = <<>>
           THEN /\ phase' = "hooked"
                /\ UNCHANGED <<annotations, allureCalls, failCalls,
                               continuation>>
           ELSE LET r == Run(Reporters, Head(calls))
                IN  /\ phase' = "hook"
                    /\ annotations' = r.annotations
                    /\ allureCalls' = r.allureCalls
                    /\ failCalls' = r.failCalls
                    /\ continuation' = Tail(calls)
  /\ UNCHANGED <<ENV, describeConfig, testConfig, direct, otherThanDecorators>>

\* the suspended hook is resumed and runs to its next await, or to its end
HookResumes ==
  /\ phase = "hook"
  /\ IF continuation = <<>>
       THEN /\ phase' = "hooked"
            /\ UNCHANGED <<annotations, allureCalls, failCalls, continuation>>
       ELSE LET r == Run(Reporters, Head(continuation))
            IN  /\ phase' = "hook"
                /\ annotations' = r.annotations
                /\ allureCalls' = r.allureCalls
                /\ failCalls' = r.failCalls
                /\ continuation' = Tail(continuation)
  /\ UNCHANGED <<ENV, describeConfig, testConfig, direct, otherThanDecorators>>

\* the test body calls TestDecorators.setupTest(cfg): it runs to its first
\* await, or to its end when it has nothing to apply
SetupTest ==
  /\ phase = "hooked"
  /\ \E cfg \in TestConfigs :
       LET calls == setupTest(cfg, ENV)
       IN  /\ testConfig' = cfg
           /\ IF calls = <<>>
                THEN /\ phase' = "setup"
                     /\ UNCHANGED <<annotations, allureCalls, failCalls,
                                    continuation>>
                ELSE LET r == Run(Reporters, Head(calls))
                     IN  /\ phase' = "running"
                         /\ annotations' = r.annotations
                         /\ allureCalls' = r.allureCalls
                         /\ failCalls' = r.failCalls
                         /\ continuation' = Tail(calls)
  /\ UNCHANGED <<ENV, describeConfig, direct, otherThanDecorators>>

\* the suspended setupTest is resumed and runs to its next await, or to its
\* end
SetupTestResumes ==
  /\ phase = "running"
  /\ IF continuation = <<>>
       THEN /\ phase' = "setup"
            /\ UNCHANGED <<annotations, allureCalls, failCalls, continuation>>
       ELSE LET r == Run(Reporters, Head(continuation))
            IN  /\ phase' = "running"
                /\ annotations' = r.annotations
                /\ allureCalls' = r.allureCalls
                /\ failCalls' = r.failCalls
                /\ continuation' = Tail(continuation)
  /\ UNCHANGED <<ENV, describeConfig, testConfig, direct, otherThanDecorators>>

\* the test body calls a decorator itself: before setupTest, while setupTest
\* is suspended at an await (the call was not awaited), or after it
Decorate ==
  /\ phase \in {"hooked", "running", "setup"}
  /\ Len(direct) < MaxDirectCalls
  /\ \E call \in DirectCalls :
       LET r == Run(Reporters, call)
       IN  /\ annotations' = r.annotations
           /\ allureCalls' = r.allureCalls
           /\ failCalls' = r.failCalls
           /\ direct' = Append(direct, call)
  /\ UNCHANGED <<ENV, phase, describeConfig, testConfig, continuation,
                 otherThanDecorators>>

DecoratorsInit ==
  /\ BASE_URL = Undefined
  /\ config = Config(BASE_URL)
  /\ RegistryIdle
  /\ WorkersIdle
  /\ RetryIdle
  /\ FactoriesIdle
  /\ ClientIdle
  /\ CartIdle
  /\ ENV \in EnvNames
  /\ phase = "idle"
  /\ describeConfig = NoDescribeConfig
  /\ testConfig = NoTestConfig
  /\ annotations = <<>>
  /\ allureCalls = <<>>
  /\ failCalls = <<>>
  /\ continuation = <<>>
  /\ direct = <<>>

DecoratorsNext ==
  \/ DescribeBlock
  \/ BeforeEach
  \/ HookResumes
  \/ SetupTest
  \/ SetupTestResumes
  \/ Decorate

DecoratorsSpec == DecoratorsInit /\ [][DecoratorsNext]_vars

(***************************************************************************)
(* Test-data factories: UserFactory (utils/userFactory.ts), ProductFactory *)
(* and CartFactory.  An object is the function from its own keys to their  *)
(* values; what faker returns is drawn from the sets below.                *)
(*   factoryCall       the factory method called, the overrides argument   *)
(*                     as it was handed over and the values faker returned *)
(*   factoryOverrides  the overrides object after the call                 *)
(*   factoryResult     the object the call returned                        *)
(***************************************************************************)
\* { ...target, ...source }: the own keys of source are copied over those of
\* target; spreading undefined copies nothing
Spread(target, source) ==
  IF source.type = "undefined"
    THEN target
    ELSE [k \in DOMAIN target \cup DOMAIN source.val |->
            IF k \in DOMAIN source.val THEN source.val[k] ELSE target[k]]

\* delete obj[key]
Delete(obj, key) == [k \in DOMAIN obj \ {key} |-> obj[k]]

\* the values faker (and generateSecurePassword, generateISBN) may return
FakerUsers ==
  [username : {"Alice_Stone", "bob99"},
   password : {"aB3$xY9qK1"},
   email : {"Alice.Stone@Example.com"},
   firstName : {"Alice"},
   lastName : {"Stone", "Nowak"},
   phoneNumber : {"555-0100"}]

BOOK_GENRES ==
  <<"Fiction", "Non-Fiction", "Science Fiction", "Fantasy", "Mystery",
    "Thriller", "Romance", "Horror", "Biography", "History", "Self-Help",
    "Business", "Children", "Young Adult", "Poetry">>

PRODUCT_TYPES ==
  <<"Book", "E-Book", "Audiobook", "Hardcover", "Paperback">>

FakerProducts ==
  [title : {"Dune"},
   firstName : {"Frank"},
   lastName : {"Herbert"},
   genre : {BOOK_GENRES[i] : i \in DOMAIN BOOK_GENRES},
   type : {PRODUCT_TYPES[i] : i \in DOMAIN PRODUCT_TYPES},
   price : {5, 100},
   stockQuantity : {0, 500},
   lowStockThreshold : {5},
   isbn : {"978-0-1234-5678-9"},
   description : {"Lorem ipsum."}]

FakerCartItems == [productId : {1, 1000}, quantity : {1, 10}]

\* variant: the overrides are spread first, so the generated values win
generateUserDefaultsLast(faker, overrides) ==
  [ret |-> Spread(Spread(<<>>, overrides),
                  Object([username |-> Str(toLowerCase(faker.username)),
                          password |-> Str(faker.password),
                          email |-> Str(toLowerCase(faker.email)),
                          firstName |-> Str(faker.firstName),
                          lastName |-> Str(faker.lastName),
                          phoneNumber |-> Str(faker.phoneNumber)])),
   overrides |-> overrides]

\* UserFactory.generateUser(overrides): the returned object and the overrides
\* object, which is only read
generateUser(faker, overrides) ==
  [ret |-> Spread([username |-> Str(toLowerCase(faker.username)),
                   password |-> Str(faker.password),
                   email |-> Str(toLowerCase(faker.email)),
                   firstName |-> Str(faker.firstName),
                   lastName |-> Str(faker.lastName),
                   phoneNumber |-> Str(faker.phoneNumber)],
                  overrides),
   overrides |-> overrides]

\* variant: the phone number is left out of the generated fields only, so one
\* supplied by the overrides stays
generateMinimalUserKeepingOverride(faker, overrides) ==
  LET user == generateUser(faker, overrides)
  IN  [ret |-> IF overrides.type # "undefined"
                    /\ "phoneNumber" \in DOMAIN overrides.val
                 THEN user.ret
                 ELSE Delete(user.ret, "phoneNumber"),
       overrides |-> user.overrides]

\* UserFactory.generateMinimalUser(overrides)
generateMinimalUser(faker, overrides) ==
  LET user == generateUser(faker, overrides)
  IN  [ret |-> Delete(user.ret, "phoneNumber"), overrides |-> user.overrides]

\* ProductFactory.generateProduct(overrides)
generateProduct(faker, overrides) ==
  [ret |-> Spread([name |-> Str(faker.title),
                   author |-> Str(faker.firstName \o " " \o faker.lastName),
                   genre |-> Str(faker.genre),
                   isbn |-> Str(faker.isbn),
                   price |-> Num(faker.price),
                   description |-> Str(faker.description),
                   type |-> Str(faker.type),
                   stockQuantity |-> Num(faker.stockQuantity),
                   lowStockThreshold |-> Num(faker.lowStockThreshold)],
                  overrides),
   overrides |-> overrides]

\* CartFactory.generateCartItem(overrides)
generateCartItem(faker, overrides) ==
  [ret |-> Spread([productId |-> Num(faker.productId),
                   quantity |-> Num(faker.quantity)],
                  overrides),
   overrides |-> overrides]

\* the objects that have some of the keys of values, each with one of the
\* values listed for it
Objects(values) ==
  UNION {{f \in [ks -> UNION {values[k] : k \in ks}] :
            \A k \in ks : f[k] \in values[k]} :
         ks \in SUBSET DOMAIN values}

\* the overrides argument: left out, or a Partial<...> object
Partials(values) == {Undefined} \cup {Object(o) : o \in Objects(values)}

\* Partial<RegisterRequest>; phoneNumber is optional, so it may also be
\* given as undefined
UserOverrides ==
  Partials([username |-> {Str("john_doe")},
            email |-> {Str("custom@example.com")},
            firstName |-> {Str("John"), Str("")},
            phoneNumber |-> {Str("555-0199"), Undefined}])

\* Partial<Product>; id is the one field generateProduct does not generate
ProductOverrides ==
  Partials([name |-> {Str("Custom Name")},
            price |-> {Num(0), Num(25)},
            stockQuantity |-> {Num(0)},
            id |-> {Num(7)}])

\* Partial<AddCartItemRequest>
CartItemOverrides ==
  Partials([productId |-> {Num(0), Num(999999)},
            quantity |-> {Num(0), Num(5)}])

\* each action is one call of a factory method by a test: it records the
\* call, the overrides object as the call left it, and the returned object
GenerateUser ==
  /\ factoryCall.name = "none"
  /\ \E faker \in FakerUsers, overrides \in UserOverrides :
       LET r == generateUser(faker, overrides)
       IN  /\ factoryCall' = [name |-> "generateUser", overrides |-> overrides,
                              faker |-> faker]
           /\ factoryOverrides' = r.overrides
           /\ factoryResult' = Object(r.ret)
  /\ UNCHANGED otherThanFactories

GenerateMinimalUser ==
  /\ factoryCall.name = "none"
  /\ \E faker \in FakerUsers, overrides \in UserOverrides :
       LET r == generateMinimalUser(faker, overrides)
       IN  /\ factoryCall' = [name |-> "generateMinimalUser", overrides |-> overrides,
                              faker |-> faker]
           /\ factoryOverrides' = r.overrides
           /\ factoryResult' = Object(r.ret)
  /\ UNCHANGED otherThanFactories

GenerateProduct ==
  /\ factoryCall.name = "none"
  /\ \E faker \in FakerProducts, overrides \in ProductOverrides :
       LET r == generateProduct(faker, overrides)
       IN  /\ factoryCall' = [name |-> "generateProduct", overrides |-> overrides,
                              faker |-> faker]
           /\ factoryOverrides' = r.overrides
           /\ factoryResult' = Object(r.ret)
  /\ UNCHANGED otherThanFactories

GenerateCartItem ==
  /\ factoryCall.name = "none"
  /\ \E faker \in FakerCartItems, overrides \in CartItemOverrides :
       LET r == generateCartItem(faker, overrides)
       IN  /\ factoryCall' = [name |-> "generateCartItem", overrides |-> overrides,
                              faker |-> faker]
           /\ factoryOverrides' = r.overrides
           /\ factoryResult' = Object(r.ret)
  /\ UNCHANGED otherThanFactories

FactoriesInit ==
  /\ BASE_URL = Undefined
  /\ config = Config(BASE_URL)
  /\ RegistryIdle
  /\ WorkersIdle
  /\ RetryIdle
  /\ DecoratorsIdle
  /\ FactoriesIdle
  /\ ClientIdle
  /\ CartIdle

FactoriesNext ==
  \/ GenerateUser
  \/ GenerateMinimalUser
  \/ GenerateProduct
  \/ GenerateCartItem

FactoriesSpec == FactoriesInit /\ [][FactoriesNext]_vars

(***************************************************************************)
(* ApiClient                                                               *)
(* One client wrapping one request context.  clientTrace records, in the   *)
(* order they happen, the calls of the client's methods, the log entries,  *)
(* the requests issued on the context, their settlements and the           *)
(* completions of the methods.                                             *)
(***************************************************************************)
ClientUrls == {"/api/Products", "/api/Cart/items/1"}

\* the options argument: left out, or an object with a payload
RequestOptions == {Undefined, Object([data |-> "payload"])}

ClientStatuses == {200, 404}

\* what the n-th request on the context may reject with
RequestErrors(n) ==
  {[type |-> "error", message |-> "connect ECONNREFUSED", id |-> n]}

CallEvent(method, url, options) ==
  [ev |-> "call", method |-> method, url |-> url, options |-> options]

\* logger.info(text)
LogEvent(text) == [ev |-> "log", text |-> text]

\* this.request.<method>(url, options)
RequestEvent(method, url, options) ==
  [ev |-> "request", method |-> method, url |-> url, options |-> options]

ResolveEvent(response) == [ev |-> "resolve", value |-> response]

RejectEvent(error) == [ev |-> "reject", value |-> error]

ReturnEvent(response) == [ev |-> "return", value |-> response]

ThrowEvent(error) == [ev |-> "throw", value |-> error]

\* a method of the client may be called
ClientReady == clientPc # "awaiting" /\ clientCalls < MaxCalls

get ==
  /\ ClientReady
  /\ \E url \in ClientUrls, options \in RequestOptions :
       clientTrace' = clientTrace \o
         <<CallEvent("get", url, options),
           LogEvent("GET request to: " \o url),
           RequestEvent("get", url, options)>>
  /\ clientPc' = "awaiting"
  /\ clientCalls' = clientCalls + 1
  /\ clientOutcome' = Pending
  /\ UNCHANGED otherThanClient

post ==
  /\ ClientReady
  /\ \E url \in ClientUrls, options \in RequestOptions :
       clientTrace' = clientTrace \o
         <<CallEvent("post", url, options),
           LogEvent("POST request to: " \o url),
           RequestEvent("post", url, options)>>
  /\ clientPc' = "awaiting"
  /\ clientCalls' = clientCalls + 1
  /\ clientOutcome' = Pending
  /\ UNCHANGED otherThanClient

put ==
  /\ ClientReady
  /\ \E url \in ClientUrls, options \in RequestOptions :
       clientTrace' = clientTrace \o
         <<CallEvent("put", url, options),
           LogEvent("PUT request to: " \o url),
           RequestEvent("put", url, options)>>
  /\ clientPc' = "awaiting"
  /\ clientCalls' = clientCalls + 1
  /\ clientOutcome' = Pending
  /\ UNCHANGED otherThanClient

\* variant: patch is sent with the context's put
patchSentAsPut ==
  /\ ClientReady
  /\ \E url \in ClientUrls, options \in RequestOptions :
       clientTrace' = clientTrace \o
         <<CallEvent("patch", url, options),
           LogEvent("PATCH request to: " \o url),
           RequestEvent("put", url, options)>>
  /\ clientPc' = "awaiting"
  /\ clientCalls' = clientCalls + 1
  /\ clientOutcome' = Pending
  /\ UNCHANGED otherThanClient

patch ==
  /\ ClientReady
  /\ \E url \in ClientUrls, options \in RequestOptions :
       clientTrace' = clientTrace \o
         <<CallEvent("patch", url, options),
           LogEvent("PATCH request to: " \o url),
           RequestEvent("patch", url, options)>>
  /\ clientPc' = "awaiting"
  /\ clientCalls' = clientCalls + 1
  /\ clientOutcome' = Pending
  /\ UNCHANGED otherThanClient

delete ==
  /\ ClientReady
  /\ \E url \in ClientUrls, options \in RequestOptions :
       clientTrace' = clientTrace \o
         <<CallEvent("delete", url, options),
           LogEvent("DELETE request to: " \o url),
           RequestEvent("delete", url, options)>>
  /\ clientPc' = "awaiting"
  /\ clientCalls' = clientCalls + 1
  /\ clientOutcome' = Pending
  /\ UNCHANGED otherThanClient

\* the awaited request resolves: the status is logged and the response is
\* returned
RequestResolves ==
  /\ clientPc = "awaiting"
  /\ \E status \in ClientStatuses :
       LET response == Response(status, clientCalls)
       IN  /\ clientTrace' = clientTrace \o
                <<ResolveEvent(response),
                  LogEvent("Response status: " \o NumToString(status)),
                  ReturnEvent(response)>>
           /\ clientOutcome' = Normal(response)
  /\ clientPc' = "done"
  /\ UNCHANGED <<clientCalls, otherThanClient>>

\* the awaited request rejects: the method has no catch, the error leaves it
RequestRejects ==
  /\ clientPc = "awaiting"
  /\ \E error \in RequestErrors(clientCalls) :
       /\ clientTrace' = clientTrace \o <<RejectEvent(error), ThrowEvent(error)>>
       /\ clientOutcome' = Throw(error)
  /\ clientPc' = "done"
  /\ UNCHANGED <<clientCalls, otherThanClient>>

ClientInit ==
  /\ BASE_URL = Undefined
  /\ config = Config(BASE_URL)
  /\ RegistryIdle
  /\ WorkersIdle
  /\ RetryIdle
  /\ DecoratorsIdle
  /\ FactoriesIdle
  /\ ClientIdle
  /\ CartIdle

ClientNext ==
  \/ get
  \/ post
  \/ put
  \/ patch
  \/ delete
  \/ RequestResolves
  \/ RequestRejects

ClientSpec == ClientInit /\ [][ClientNext]_vars

(***************************************************************************)
(* Cart tests under parallel workers                                       *)
(* cartPostRegular TC 001P and cartDeleteRegular TC 003P, each run by a    *)
(* worker of its own against the one server.  Both log in as 'User'; the   *)
(* server keeps one cart per account, POST /Cart/items appends an item to  *)
(* it, DELETE /Cart empties it and GET /Cart returns its items.  A step is *)
(* one awaited request together with the expectations on its response.     *)
(***************************************************************************)
Step(op, arg) == [op |-> op, arg |-> arg]

\* retries: 1 in the Playwright config: a failed test is run once more
retries == 1

\* beforeEach (login 'User', clear the cart, login admin) and the body of
\* TC 001P: create a product, add it, get the cart and expect exactly 1 item
\* of that product and quantity, then expect the item's product details
cartPostRegularTC001P ==
  <<Step("login", 0), Step("clear", 0), Step("login", 1),
    Step("create", 1), Step("add", 1), Step("getOwn", 1),
    Step("details", 1)>>

\* beforeEach (login 'User', login admin; the cart is not cleared) and the
\* body of TC 003P: create three products, add them, expect 3 items, clear,
\* expect 0 items
cartDeleteRegularTC003P ==
  <<Step("login", 0), Step("login", 1),
    Step("create", 1), Step("create", 2), Step("create", 3),
    Step("add", 1), Step("add", 2), Step("add", 3),
    Step("get", 3), Step("clear", 0), Step("get", 0)>>

CartTestNames == {"cartPostRegular TC 001P", "cartDeleteRegular TC 003P"}

Program(test) ==
  IF test = "cartPostRegular TC 001P"
    THEN cartPostRegularTC001P
    ELSE cartDeleteRegularTC003P

\* faker.number.int({ min: 1, max: 10 }) for the quantity of a cart item
CartQuantities == {1, 3}

\* a JavaScript number near a decimal amount: hundredths is the amount in
\* 1/100, ulps how many units in the last place the double is away from the
\* double nearest to that amount
Double(hundredths, ulps) == [hundredths |-> hundredths, ulps |-> ulps]

\* parseFloat(faker.commerce.price({ min: 5, max: 100, dec: 2 })): 8.20
ProductPrices == {Double(820, 0)}

\* ProductFactory.generateProduct(): the fields the cart tests look at
ProductData == [name : {"Dune"}, author : {"Frank Herbert"},
                price : ProductPrices]

\* price * quantity in IEEE 754 double arithmetic, for the prices and
\* quantities above: 8.2 * 3 is 24.599999999999998, one unit in the last
\* place below 24.6; the other products are exact
Times(price, quantity) ==
  Double(price.hundredths * quantity,
         IF price = Double(820, 0) /\ quantity = 3 THEN 0 - 1 ELSE 0)

\* the server's totalPrice of an item: the product in decimal arithmetic, or
\* the product in binary floating point
ServerTimes(price, quantity) ==
  IF serverArithmetic = "decimal"
    THEN Double(price.hundredths * quantity, 0)
    ELSE Times(price, quantity)

\* an item of the body of GET /Cart
CartItemView(item) ==
  LET product == products[item.productId]
  IN  [productId |-> item.productId,
       quantity |-> item.quantity,
       productName |-> product.name,
       author |-> product.author,
       unitPrice |-> product.price,
       totalPrice |-> ServerTimes(product.price, item.quantity)]

\* result.items of GET /Cart
CartView == [i \in DOMAIN cartItems |-> CartItemView(cartItems[i])]

\* the step the worker's test is at
CurrentStep(w) == Program(cartTests[w].test)[cartTests[w].pc]

AtStep(w, op) ==
  /\ cartTests[w].verdict = "running"
  /\ CurrentStep(w).op = op

\* the test goes on to its next step, or has passed after its last one
Advance(t) ==
  IF t.pc = Len(Program(t.test))
    THEN [t EXCEPT !.verdict = "passed"]
    ELSE [t EXCEPT !.pc = @ + 1]

\* an expectation failed: the test ends there
Fail(t, message) ==
  [t EXCEPT !.verdict = "failed", !.failed = message,
            !.failures = Append(@, message)]

\* a worker takes a test no worker has taken
StartTest(w) ==
  /\ cartTests[w].test = "none"
  /\ \E name \in CartTestNames :
       /\ \A v \in Workers : cartTests[v].test # name
       /\ cartTests' = [cartTests EXCEPT ![w] =
            [NoCartTest EXCEPT !.test = name, !.pc = 1,
                               !.verdict = "running"]]
  /\ UNCHANGED <<serverArithmetic, cartItems, products, otherThanCart>>

\* retries: a test that failed is started once more, hooks included
RetryTest(w) ==
  /\ cartTests[w].verdict = "failed"
  /\ cartTests[w].retry < retries
  /\ cartTests' = [cartTests EXCEPT ![w] =
       [NoCartTest EXCEPT !.test = cartTests[w].test, !.pc = 1,
                          !.retry = cartTests[w].retry + 1,
                          !.verdict = "running",
                          !.failures = cartTests[w].failures]]
  /\ UNCHANGED <<serverArithmetic, cartItems, products, otherThanCart>>

\* POST Users.login as 'User' (arg 0) or as admin (arg 1)
Login(w) ==
  /\ AtStep(w, "login")
  /\ cartTests' = [cartTests EXCEPT ![w] = Advance(@)]
  /\ UNCHANGED <<serverArithmetic, cartItems, products, otherThanCart>>

\* DELETE /Cart with the token of 'User'
ClearCart(w) ==
  /\ AtStep(w, "clear")
  /\ cartItems' = <<>>
  /\ cartTests' = [cartTests EXCEPT ![w] = Advance(@)]
  /\ UNCHANGED <<serverArithmetic, products, otherThanCart>>

\* POST Products.create as admin with generated product data: the server
\* stores the product and hands out the next id
CreateProduct(w) ==
  /\ AtStep(w, "create")
  /\ \E data \in ProductData :
       /\ products' = Append(products, data)
       /\ cartTests' = [cartTests EXCEPT ![w] =
            Advance([@ EXCEPT !.productIds = Append(@, Len(products) + 1),
                              !.productData = Append(@, data)])]
  /\ UNCHANGED <<serverArithmetic, cartItems, otherThanCart>>

\* POST /Cart/items with the token of 'User'
AddCartItem(w) ==
  /\ AtStep(w, "add")
  /\ \E quantity \in CartQuantities :
       /\ cartItems' = Append(cartItems,
            [productId |-> cartTests[w].productIds[CurrentStep(w).arg],
             quantity |-> quantity])
       /\ cartTests' = [cartTests EXCEPT ![w] =
            Advance([@ EXCEPT !.quantity = quantity])]
  /\ UNCHANGED <<serverArithmetic, products, otherThanCart>>

\* GET /Cart and expect(result.items.length).toBe(arg)
GetCart(w) ==
  /\ AtStep(w, "get")
  /\ cartTests' = [cartTests EXCEPT ![w] =
       IF Len(CartView) = CurrentStep(w).arg
             THEN Advance(@)
             ELSE Fail(@, IF CurrentStep(w).arg = 3
                            THEN "Cart should have 3 items before clearing"
                            ELSE "Cart should be empty after clearing all 3 items")]
  /\ UNCHANGED <<serverArithmetic, cartItems, products, otherThanCart>>

\* GET /Cart, expect exactly 1 item and expect it to be the product added,
\* in the quantity added
GetOwnCart(w) ==
  /\ AtStep(w, "getOwn")
  /\ cartTests' = [cartTests EXCEPT ![w] =
       LET t == [@ EXCEPT !.items = CartView]
       IN  IF Len(t.items) # 1
             THEN Fail(t, "Cart should contain exactly 1 item")
             ELSE IF t.items[1].productId # t.productIds[1]
               THEN Fail(t, "Cart item should have the correct product ID")
             ELSE IF t.items[1].quantity # t.quantity
               THEN Fail(t, "Cart item should have the correct quantity")
               ELSE Advance(t)]
  /\ UNCHANGED <<serverArithmetic, cartItems, products, otherThanCart>>

\* the step 'Verify cart item product details match created product' on the
\* result of the GET: name, author, unit price, quantity, total price
VerifyCartItem(w) ==
  /\ AtStep(w, "details")
  /\ cartTests' = [cartTests EXCEPT ![w] =
       LET cartItem == @.items[1]
           productData == @.productData[1]
       IN  IF cartItem.productId # @.productIds[1]
             THEN Fail(@, "Product ID should match")
           ELSE IF cartItem.productName # productData.name
             THEN Fail(@, "Product name should match created product")
           ELSE IF cartItem.author # productData.author
             THEN Fail(@, "Product author should match created product")
           ELSE IF cartItem.unitPrice # productData.price
             THEN Fail(@, "Product price should match created product")
           ELSE IF cartItem.quantity # @.quantity
             THEN Fail(@, "Quantity should match added item")
           ELSE IF cartItem.totalPrice # Times(productData.price, @.quantity)
             THEN Fail(@, "Total price should match calculated value")
             ELSE Advance(@)]
  /\ UNCHANGED <<serverArithmetic, cartItems, products, otherThanCart>>

CartInit ==
  /\ BASE_URL = Undefined
  /\ config = Config(BASE_URL)
  /\ RegistryIdle
  /\ WorkersIdle
  /\ RetryIdle
  /\ DecoratorsIdle
  /\ FactoriesIdle
  /\ ClientIdle
  /\ serverArithmetic \in {"decimal", "double"}
  /\ cartItems = <<>>
  /\ products = <<>>
  /\ cartTests = [w \in Workers |-> NoCartTest]

CartNext ==
  \E w \in Workers :
    \/ StartTest(w)
    \/ RetryTest(w)
    \/ Login(w)
    \/ ClearCart(w)
    \/ CreateProduct(w)
    \/ AddCartItem(w)
    \/ GetCart(w)
    \/ GetOwnCart(w)
    \/ VerifyCartItem(w)

CartSpec == CartInit /\ [][CartNext]_vars

(***************************************************************************)
(* Documented endpoint table                                               *)
(* The path templates of the URL Builder Guide (API Reference) and of the  *)
(* interface table; {1} and {2} stand for the first and second parameter.  *)
(* Cart.delete is the function-based variant's name of Cart.clear.         *)
(***************************************************************************)
DocTemplate ==
  <<"Users", "register">> :> "/Users/register" @@
  <<"Users", "login">> :> "/Users/login" @@
  <<"Users", "logout">> :> "/Users/logout" @@
  <<"Users", "getById">> :> "/Users/{1}" @@
  <<"Users", "admin.users">> :> "/Users/admin/users" @@
  <<"Users", "admin.getUserById">> :> "/Users/admin/users/{1}" @@
  <<"Users", "admin.updateUser">> :> "/Users/admin/users/{1}" @@
  <<"Users", "admin.resetPassword">> :> "/Users/admin/users/{1}/reset-password" @@
  <<"Products", "list">> :> "/Products" @@
  <<"Products", "create">> :> "/Products" @@
  <<"Products", "getById">> :> "/Products/{1}" @@
  <<"Products", "update">> :> "/Products/{1}" @@
  <<"Products", "delete">> :> "/Products/{1}" @@
  <<"Products", "availability">> :> "/Products/{1}/availability" @@
  <<"Products", "stock">> :> "/Products/{1}/stock" @@
  <<"Products", "increaseStock">> :> "/Products/{1}/stock/increase" @@
  <<"Products", "decreaseStock">> :> "/Products/{1}/stock/decrease" @@
  <<"Cart", "get">> :> "/Cart" @@
  <<"Cart", "clear">> :> "/Cart" @@
  <<"Cart", "addItem">> :> "/Cart/items" @@
  <<"Cart", "updateItem">> :> "/Cart/items/{1}" @@
  <<"Cart", "removeItem">> :> "/Cart/items/{1}" @@
  <<"Cart", "checkout">> :> "/Cart/checkout" @@
  <<"Cart", "applyCoupon">> :> "/Cart/apply-coupon" @@
  <<"Cart", "removeCoupon">> :> "/Cart/remove-coupon" @@
  <<"Orders", "create">> :> "/Orders/create" @@
  <<"Orders", "place">> :> "/Orders/place" @@
  <<"Orders", "list">> :> "/Orders" @@
  <<"Orders", "myOrders">> :> "/Orders/my-orders" @@
  <<"Orders", "getById">> :> "/Orders/{1}" @@
  <<"Orders", "delete">> :> "/Orders/{1}" @@
  <<"Orders", "updateStatus">> :> "/Orders/{1}/status" @@
  <<"Orders", "pending">> :> "/Orders/pending" @@
  <<"Orders", "cancel">> :> "/Orders/{1}/cancel" @@
  <<"Profile", "get">> :> "/users/profile" @@
  <<"Profile", "update">> :> "/users/profile" @@
  <<"Profile", "changePassword">> :> "/users/profile/change-password" @@
  <<"Profile", "addresses.add">> :> "/users/profile/addresses" @@
  <<"Profile", "addresses.update">> :> "/users/profile/addresses/{1}" @@
  <<"Profile", "addresses.delete">> :> "/users/profile/addresses/{1}" @@
  <<"Profile", "addresses.setDefault">> :> "/users/profile/addresses/{1}/set-default" @@
  <<"Reviews", "create">> :> "/products/{1}/Reviews" @@
  <<"Reviews", "list">> :> "/products/{1}/Reviews" @@
  <<"Reviews", "getById">> :> "/products/{1}/Reviews/{2}" @@
  <<"Reviews", "delete">> :> "/products/{1}/Reviews/{2}" @@
  <<"Reviews", "myReview">> :> "/products/{1}/my-review" @@
  <<"Reviews", "markHelpful">> :> "/reviews/{1}/helpful" @@
  <<"Reviews", "moderate">> :> "/products/{1}/Reviews/{2}/moderate" @@
  <<"Reviews", "admin.list">> :> "/admin/reviews" @@
  <<"Wishlist", "get">> :> "/Wishlist" @@
  <<"Wishlist", "clear">> :> "/Wishlist" @@
  <<"Wishlist", "addItem">> :> "/Wishlist/items/{1}" @@
  <<"Wishlist", "removeItem">> :> "/Wishlist/items/{1}" @@
  <<"Wishlist", "checkItem">> :> "/Wishlist/check/{1}" @@
  <<"Wishlist", "moveToCart">> :> "/Wishlist/move-to-cart" @@
  <<"Wishlist", "count">> :> "/Wishlist/count" @@
  <<"PaymentMethods", "list">> :> "/payment-methods" @@
  <<"PaymentMethods", "add">> :> "/payment-methods" @@
  <<"PaymentMethods", "getById">> :> "/payment-methods/{1}" @@
  <<"PaymentMethods", "update">> :> "/payment-methods/{1}" @@
  <<"PaymentMethods", "delete">> :> "/payment-methods/{1}" @@
  <<"PaymentMethods", "setDefault">> :> "/payment-methods/{1}/set-default" @@
  <<"Payments", "process">> :> "/payments/process" @@
  <<"Payments", "transactions">> :> "/payments/transactions" @@
  <<"Payments", "getTransaction">> :> "/payments/transactions/{1}" @@
  <<"Payments", "refund">> :> "/payments/refund" @@
  <<"Payments", "admin.transactions">> :> "/payments/admin/transactions" @@
  <<"Payments", "admin.statistics">> :> "/payments/admin/statistics" @@
  <<"Coupons", "validate">> :> "/Coupons/validate/{1}" @@
  <<"Coupons", "admin.list">> :> "/Coupons/admin/coupons" @@
  <<"Coupons", "admin.create">> :> "/Coupons/admin/coupons" @@
  <<"Coupons", "admin.update">> :> "/Coupons/admin/coupons/{1}" @@
  <<"Coupons", "admin.delete">> :> "/Coupons/admin/coupons/{1}" @@
  <<"Coupons", "admin.usage">> :> "/Coupons/admin/coupons/{1}/usage" @@
  <<"Session", "get">> :> "/Session" @@
  <<"Cart", "delete">> :> "/Cart"

RECURSIVE Substitute(_, _)
\* the template with every placeholder replaced by the string form of the
\* corresponding argument
Substitute(t, a) ==
  IF t = "" THEN ""
  ELSE IF StartsWith(t, "{1}")
         THEN TemplateString(a[1]) \o Substitute(SubSeq(t, 4, Len(t)), a)
  ELSE IF StartsWith(t, "{2}")
         THEN TemplateString(a[2]) \o Substitute(SubSeq(t, 4, Len(t)), a)
  ELSE SubSeq(t, 1, 1) \o Substitute(SubSeq(t, 2, Len(t)), a)

\* the default base URL the documentation promises for this environment
DocumentedDefault == IF Truthy(BASE_URL) THEN BASE_URL.val ELSE DefaultBaseUrl

Called == last.kind # "none"

\* a registry of the given variant bound to base URL b
RegistryBoundTo(kind, b) ==
  IF kind = "class"
    THEN [kind |-> "class", obj |-> [baseUrl |-> b]]
    ELSE [kind |-> "function",
          obj |-> [BaseUrl |-> b,
                   Controllers |->
                     createLittleBugShopEndpoints([baseUrl |-> b])]]

\* the registry the other variant's factory returns for the same argument
OtherVariant(kind, arg) ==
  IF kind = "class"
    THEN [kind |-> "function", obj |-> LittleBugShopControllers]
    ELSE [kind |-> "class", obj |-> LittleBugShop(arg)]

(***************************************************************************)
(* C1  Base-URL fallback.  A registry constructed with no base URL or with *)
(* the empty string returns URLs prefixed with the default base URL        *)
(* (BASE_URL when set and non-empty, otherwise http://localhost:5052), the *)
(* same for both arguments; no URL starts with an empty base or with the   *)
(* text "undefined".                                                       *)
(***************************************************************************)
C1_BaseUrlFallback ==
  (Called /\ ~Truthy(last.arg)) =>
    /\ last.url = DocumentedDefault \o "/api"
                    \o Substitute(DocTemplate[<<last.group, last.op>>], last.args)
    /\ ~StartsWith(last.url, "undefined")
    /\ ~StartsWith(last.url, "/api")

(***************************************************************************)
(* C2  Base-URL override.  Every URL of a registry made with a non-empty   *)
(* base URL b starts with b followed by "/api", whatever the default is.   *)
(***************************************************************************)
C2_BaseUrlOverride ==
  (Called /\ Truthy(last.arg)) => StartsWith(last.url, last.arg.val \o "/api")

(***************************************************************************)
(* C3  Path construction.  Every returned URL is the registry's base URL,  *)
(* then "/api", then the operation's documented path template with each    *)
(* placeholder replaced by the string form of the argument in that         *)
(* position, in the declared casing.                                       *)
(***************************************************************************)
C3_PathConstruction ==
  Called =>
    last.url = last.base \o "/api"
                 \o Substitute(DocTemplate[<<last.group, last.op>>], last.args)

C3_Witness ==
  /\ Called
  /\ last.group = "Profile"
  /\ last.op = "addresses.setDefault"
  /\ last.args = <<Num(123)>>
  /\ last.base = "https://staging.example.com"

(***************************************************************************)
(* C4  Variant equivalence.  For an operation both variants declare, the   *)
(* class-based and the function-based registry made from the same base-URL *)
(* argument return the same string for the same arguments.                 *)
(***************************************************************************)
C4_VariantEquivalence ==
  (Called /\ <<last.group, last.op, Len(last.args)>>
                \in (ClassSignatures \cap FunctionSignatures)) =>
    last.url = Eval(OtherVariant(last.kind, last.arg),
                    last.group, last.op, last.args).ret

\* making the recorded call again, now, on the registry currently held
\* returns the recorded URL
SameCallSameUrl ==
  (Called /\ registry.kind = last.kind /\ registry.arg = last.arg) =>
    Eval(registry, last.group, last.op, last.args).ret = last.url

\* a step that is not a factory call leaves the registry as it was
AccessKeepsRegistry == (constructed' = constructed) => (registry' = registry)

(***************************************************************************)
(* C5  Determinism.  Two calls with the same base URL, operation and       *)
(* parameters return the same string whatever happened between them: no    *)
(* accessor evaluation changes the registry it is made on, and the same    *)
(* call made on any registry of the same variant built later from the same *)
(* base-URL argument returns the string the earlier call returned.         *)
(***************************************************************************)
C5_Determinism == [][AccessKeepsRegistry]_vars /\ []SameCallSameUrl

C5_Witness ==
  /\ Called
  /\ constructed > last.gen
  /\ registry.kind = "class"
  /\ last.kind = "class"
  /\ registry.arg = last.arg
  /\ last.op = "getById"

OtherBases ==
  {"https://staging.example.com", "http://localhost:5052", "http://10.0.0.7:8080"}

(***************************************************************************)
(* C6  Base-URL independence.  For every call, what follows the base URL   *)
(* in the returned URL is what follows the base URL in the URL the same    *)
(* operation and arguments give on a registry bound to any other base URL. *)
(***************************************************************************)
C6_BaseUrlIndependence ==
  Called =>
    \A b2 \in OtherBases :
      StripPrefix(last.url, last.base)
        = StripPrefix(Eval(RegistryBoundTo(last.kind, b2),
                           last.group, last.op, last.args).ret, b2)

C6_Witness ==
  /\ Called
  /\ last.base = "http://localhost:3000"
  /\ last.group = "Session"
  /\ last.kind = "class"

(***************************************************************************)
(* C7  Two-parameter ordering.  Reviews.getById(p, r) and                  *)
(* Reviews.delete(p, r) return base + "/api/products/" + p + "/Reviews/"   *)
(* + r, and Reviews.moderate(p, r) the same followed by "/moderate": the   *)
(* first argument fills the product segment, the second the review one.    *)
(***************************************************************************)
C7_TwoParameterOrdering ==
  (Called /\ last.group = "Reviews"
          /\ last.op \in {"getById", "delete", "moderate"}) =>
    last.url = last.base \o "/api/products/" \o TemplateString(last.args[1])
                 \o "/Reviews/" \o TemplateString(last.args[2])
                 \o (IF last.op = "moderate" THEN "/moderate" ELSE "")

C7_Witness ==
  /\ Called
  /\ last.group = "Reviews"
  /\ last.op = "moderate"
  /\ last.args = <<Num(123), Str("a?b")>>

\* the arguments with every number replaced by the string of its digits
Digits(a) ==
  [i \in DOMAIN a |->
     IF a[i].type = "number" THEN Str(ToString(a[i].val)) ELSE a[i]]

(***************************************************************************)
(* C8  Parameter stringification.  A numeric argument and the string of    *)
(* its decimal digits give the same URL, and a string argument is inserted *)
(* exactly as given: Coupons.validate(c) is base + "/api/Coupons/validate/"*)
(* + c for every string c.                                                 *)
(***************************************************************************)
C8_ParameterStringification ==
  Called =>
    /\ last.url = Eval(RegistryBoundTo(last.kind, last.base),
                       last.group, last.op, Digits(last.args)).ret
    /\ (last.group = "Coupons" /\ last.op = "validate"
          /\ last.args[1].type = "string") =>
         last.url = last.base \o "/api/Coupons/validate/" \o last.args[1].val

C8_Witness ==
  /\ Called
  /\ last.group = "Coupons"
  /\ last.op = "validate"
  /\ last.args = <<Str("a?b")>>
  /\ last.kind = "class"

(***************************************************************************)
(* C9  Every operation of an admin sub-namespace returns a URL whose part  *)
(* after the base URL contains the text "admin".                           *)
(***************************************************************************)
C9_AdminPathsContainAdmin ==
  (Called /\ StartsWith(last.op, "admin.")) =>
    Contains(StripPrefix(last.url, last.base), "admin")

C9_Witness ==
  /\ Called
  /\ last.group = "Reviews"
  /\ last.op = "admin.list"
  /\ last.kind = "class"

(***************************************************************************)
(* C10 (as stated)  No returned URL ends with "/" or contains "?", for any *)
(* arguments, the empty string included.                                   *)
(***************************************************************************)
C10_NoTrailingSlashNoQuery ==
  Called => (~EndsWith(last.url, "/") /\ ~Contains(last.url, "?"))

\* an argument whose string form is non-empty, does not end with "/" and
\* contains no "?"
PlainArg(v) ==
  LET t == TemplateString(v)
  IN  t # "" /\ ~EndsWith(t, "/") /\ ~Contains(t, "?")

(***************************************************************************)
(* C10 (amended)  When the string form of every argument is non-empty,     *)
(* does not end with "/" and contains no "?", the returned URL neither     *)
(* ends with "/" nor contains "?".                                         *)
(***************************************************************************)
C10_NoTrailingSlashNoQueryPlainArgs ==
  (Called /\ \A i \in DOMAIN last.args : PlainArg(last.args[i])) =>
    (~EndsWith(last.url, "/") /\ ~Contains(last.url, "?"))

C10_Witness ==
  /\ Called
  /\ last.group = "Products"
  /\ last.op = "getById"
  /\ last.args = <<Str("123")>>
  /\ last.kind = "class"

(***************************************************************************)
(* C11  Totality.  A factory call with any base-URL value (absent, empty,  *)
(* or not a well-formed URL) completes normally and yields a registry, and *)
(* every operation called on a registry with any argument completes        *)
(* normally and returns a string.                                          *)
(***************************************************************************)
C11_Totality ==
  /\ registry.kind # "error"
  /\ (constructed > 0) => (registry.kind \in {"class", "function"})
  /\ Called => (last.completion = "normal" /\ last.typeof = "string")

C11_Witness ==
  /\ Called
  /\ last.kind = "class"
  /\ last.arg = Str("not a url")
  /\ last.op = "getById"
  /\ last.args = <<Str("")>>
  /\ last.url = "not a url/api/Users/"

\* every worker's registry is bound to the base URL resolved when it was made
BoundAsResolved ==
  \A w \in Workers :
    (instances[w].kind # "none") => (BoundBase(instances[w]) = resolved[w])

\* a URL a worker holds starts with the base URL of that worker's registry
ObtainedFromOwnBase ==
  (obtained # NoCall) =>
    StartsWith(obtained.url, resolved[obtained.worker] \o "/api/")

\* a step in which a worker obtains a URL changes no worker's registry
WorkerAccessKeepsInstances ==
  (obtained = NoCall /\ obtained' # NoCall) => (instances' = instances)

\* a step changes the registry of at most one worker
OneWorkerPerStep ==
  \A v, w \in Workers :
    (instances'[v] # instances[v] /\ instances'[w] # instances[w]) => (v = w)

(***************************************************************************)
(* C12  Instance independence.  In every interleaving of workers that make *)
(* registries with different base URLs and call accessors, each registry   *)
(* stays bound to the base URL resolved at its construction, each URL a    *)
(* worker obtains is prefixed with the base URL of that worker's own       *)
(* registry, an accessor call changes no registry, and a factory call      *)
(* changes only the calling worker's registry.                             *)
(***************************************************************************)
C12_InstanceIndependence ==
  /\ [][WorkerAccessKeepsInstances /\ OneWorkerPerStep]_vars
  /\ [](BoundAsResolved /\ ObtainedFromOwnBase)

C12_Witness ==
  /\ obtained # NoCall
  /\ obtained.worker = 1
  /\ instances[1].kind = "class"
  /\ instances[2].kind = "class"
  /\ resolved[1] = "https://staging.example.com"
  /\ resolved[2] = "not a url"
  /\ obtained.url = "https://staging.example.com/api/Session"

\* the i-th invocation of fn resolved with a response of the expected status
Succeeded(i) ==
  /\ settled[i].completion = "normal"
  /\ settled[i].value.status = expectedStatus

Returned == pc = "done" /\ outcome.completion = "normal"

\* once retryUntilStatus has completed, nothing of the call changes any more
DoneIsFinal == (pc = "done") => UNCHANGED retryVars

\* an attempt with the expected status is the last thing that happened: it is
\* the first such attempt, the call has returned its response, and the trace
\* ends with that invocation of fn
FirstSuccessReturned ==
  \A i \in DOMAIN settled :
    Succeeded(i) =>
      /\ i = Len(settled)
      /\ Returned
      /\ outcome.value = settled[i].value
      /\ outcome.value.id = i
      /\ trace[Len(trace)] = FnEvent(i)
      /\ Cardinality({k \in DOMAIN trace : trace[k].ev = "fn"}) = i

(***************************************************************************)
(* C13  retryUntilStatus returns the response of the first attempt whose   *)
(* status equals expectedStatus, and after that attempt it makes no        *)
(* further call to fn and takes no further delay: whenever such an attempt *)
(* exists it is the last settled one, the call has returned exactly its    *)
(* response, the trace ends with its invocation, and nothing changes       *)
(* afterwards; and whenever the call has returned, such an attempt exists. *)
(***************************************************************************)
C13_ReturnsFirstExpected ==
  /\ [][DoneIsFinal]_vars
  /\ [](FirstSuccessReturned
         /\ (Returned => (settled # <<>> /\ Succeeded(Len(settled)))))

C13_Witness ==
  /\ Returned
  /\ expectedStatus = 201
  /\ maxAttempts = 3
  /\ Len(settled) = 2
  /\ settled[1].completion = "normal"
  /\ settled[1].value.status = 200
  /\ outcome.value = Response(201, 2)

NoneSucceeded == \A i \in DOMAIN settled : ~Succeeded(i)

\* all maxAttempts attempts were made and have settled
AttemptsSettled == pc # "idle" /\ Len(settled) = maxAttempts

\* all maxAttempts attempts were made and the last one returned a response
AttemptsCompleted ==
  /\ AttemptsSettled
  /\ maxAttempts >= 1 => settled[maxAttempts].completion = "normal"

\* "Failed to get status <expected> after <maxAttempts> attempts. Last
\* status: "
MessageHead ==
  "Failed to get status " \o ToString(expectedStatus) \o " after "
    \o ToString(maxAttempts) \o " attempts. Last status: "

\* the status the message must name: that of the last attempt
LastAttemptStatus ==
  IF maxAttempts = 0
    THEN "undefined"
    ELSE ToString(settled[maxAttempts].value.status)

(***************************************************************************)
(* C14 (as stated)  retryUntilStatus never returns a response whose status *)
(* differs from expectedStatus; when maxAttempts attempts have completed,  *)
(* by returning or by throwing, and none had the expected status, the call *)
(* has thrown an Error whose message names the expected status, the number *)
(* of attempts and the status of the last attempt.                         *)
(***************************************************************************)
C14_NeverReturnsUnexpected ==
  /\ Returned => (outcome.value.status = expectedStatus)
  /\ (AttemptsSettled /\ NoneSucceeded) =>
       /\ pc = "done"
       /\ outcome.completion = "throw"
       /\ StartsWith(outcome.value.message, MessageHead)

(***************************************************************************)
(* C14 (amended)  retryUntilStatus never returns a response whose status   *)
(* differs from expectedStatus; when maxAttempts attempts have been made,  *)
(* the last of them returned a response and none had the expected status,  *)
(* the call has thrown an Error whose message is "Failed to get status     *)
(* <expected> after <maxAttempts> attempts. Last status: <status of the    *)
(* last attempt>".                                                         *)
(***************************************************************************)
C14_NeverReturnsUnexpectedLastReturned ==
  /\ Returned => (outcome.value.status = expectedStatus)
  /\ (AttemptsCompleted /\ NoneSucceeded) =>
       /\ pc = "done"
       /\ outcome.completion = "throw"
       /\ outcome.value.type = "error"
       /\ outcome.value.id = 0
       /\ outcome.value.message = MessageHead \o LastAttemptStatus

C14_Witness ==
  /\ pc = "done"
  /\ maxAttempts = 2
  /\ Len(settled) = 2
  /\ settled[1].completion = "throw"
  /\ outcome.completion = "throw"
  /\ outcome.value.message
       = "Failed to get status 201 after 2 attempts. Last status: 200"

\* the test has an annotation of the given type and text
Annotated(type, text) ==
  \E i \in DOMAIN annotations :
    annotations[i] = [type |-> type, description |-> text]

\* the hook adds none of the annotation types of setupTest
AnnotatedAs(type) == \E i \in DOMAIN annotations : annotations[i].type = type

AllureCalled(method, args) ==
  \E i \in DOMAIN allureCalls :
    allureCalls[i] = [method |-> method, args |-> args]

AllureCalledAs(method) ==
  \E i \in DOMAIN allureCalls : allureCalls[i].method = method

\* a string field of the config is applied: its annotation and its Allure
\* call when it is given (a non-empty string), neither when it is absent
StringFieldApplied(value, type, method) ==
  IF Truthy(value)
    THEN Annotated(type, value.val) /\ AllureCalled(method, <<value.val>>)
    ELSE ~AnnotatedAs(type) /\ ~AllureCalledAs(method)

\* a listed bug that names no environment is marked on the test
BugMarked(bug) ==
  Truthy(bug.environments) \/
    /\ AnnotatedAs("Known Bug " \o bug.bugId)
    /\ AllureCalled("issue", <<bug.bugId,
                               "https://your-bug-tracker.com/browse/"
                                 \o bug.bugId>>)

(***************************************************************************)
(* C15  TestDecorators.setupTest applies every metadata field present in   *)
(* its config: once it has run, each of description, owner and severity    *)
(* that is given has its annotation (Description, Owner, Severity) with    *)
(* the given text and its Allure call, a given tms has the TMS annotation  *)
(* "<id> - <url>" and the call allure.tms(id, url), every bug of a given   *)
(* knownBugs list that names no environment has its Known Bug annotation   *)
(* and its Allure issue link, and a field that is absent has added         *)
(* neither annotation nor call (the test body calling no decorator of its *)
(* own).                                                                   *)
(***************************************************************************)
C15_SetupTestAppliesMetadata ==
  (phase = "setup" /\ direct = <<>>) =>
    /\ StringFieldApplied(testConfig.description, "Description", "description")
    /\ StringFieldApplied(testConfig.owner, "Owner", "owner")
    /\ StringFieldApplied(testConfig.severity, "Severity", "severity")
    /\ IF Truthy(testConfig.tms)
         THEN /\ Annotated("TMS", testConfig.tms.val.id \o " - "
                                    \o testConfig.tms.val.url)
              /\ AllureCalled("tms", <<testConfig.tms.val.id,
                                       testConfig.tms.val.url>>)
         ELSE ~AnnotatedAs("TMS") /\ ~AllureCalledAs("tms")
    /\ IF Truthy(testConfig.knownBugs)
         THEN \A i \in DOMAIN testConfig.knownBugs.val :
                BugMarked(testConfig.knownBugs.val[i])
         ELSE failCalls = <<>> /\ ~AllureCalledAs("issue")

\* the fields the overrides argument gives
Overridden ==
  IF factoryCall.overrides.type = "undefined"
    THEN {}
    ELSE DOMAIN factoryCall.overrides.val

\* the values the factory generates from what faker returned, field by field
GeneratedFields ==
  LET faker == factoryCall.faker
  IN  CASE factoryCall.name \in {"generateUser", "generateMinimalUser"} ->
             [username |-> Str(toLowerCase(faker.username)),
              password |-> Str(faker.password),
              email |-> Str(toLowerCase(faker.email)),
              firstName |-> Str(faker.firstName),
              lastName |-> Str(faker.lastName),
              phoneNumber |-> Str(faker.phoneNumber)]
        [] factoryCall.name = "generateProduct" ->
             [name |-> Str(faker.title),
              author |-> Str(faker.firstName \o " " \o faker.lastName),
              genre |-> Str(faker.genre),
              isbn |-> Str(faker.isbn),
              price |-> Num(faker.price),
              description |-> Str(faker.description),
              type |-> Str(faker.type),
              stockQuantity |-> Num(faker.stockQuantity),
              lowStockThreshold |-> Num(faker.lowStockThreshold)]
        [] factoryCall.name = "generateCartItem" ->
             [productId |-> Num(faker.productId),
              quantity |-> Num(faker.quantity)]

(***************************************************************************)
(* C16  Factory overrides win.  For generateUser, generateProduct and      *)
(* generateCartItem the result has exactly the fields of the overrides and *)
(* the generated fields; every field present in the overrides has the      *)
(* overriding value, every other field the generated value, and the        *)
(* overrides object is after the call what it was before.                  *)
(***************************************************************************)
C16_FactoryOverridesWin ==
  (factoryCall.name \in {"generateUser", "generateProduct",
                         "generateCartItem"}) =>
    /\ DOMAIN factoryResult.val = Overridden \cup DOMAIN GeneratedFields
    /\ \A k \in Overridden :
         factoryResult.val[k] = factoryCall.overrides.val[k]
    /\ \A k \in DOMAIN GeneratedFields \ Overridden :
         factoryResult.val[k] = GeneratedFields[k]
    /\ factoryOverrides = factoryCall.overrides

C16_Witness ==
  /\ factoryCall.name = "generateUser"
  /\ Overridden = {"firstName", "phoneNumber"}
  /\ factoryCall.overrides.val["phoneNumber"] = Undefined
  /\ factoryResult.val["firstName"] = Str("")
  /\ factoryResult.val["phoneNumber"] = Undefined
  /\ factoryResult.val["username"] = Str("alice_stone")

(***************************************************************************)
(* C17  UserFactory.generateMinimalUser returns an object with no          *)
(* phoneNumber field for every overrides argument, one that supplies a     *)
(* phoneNumber included; its other fields are those generateUser returns   *)
(* for the same overrides and the same generated values.                   *)
(***************************************************************************)
C17_MinimalUserHasNoPhone ==
  (factoryCall.name = "generateMinimalUser") =>
    /\ "phoneNumber" \notin DOMAIN factoryResult.val
    /\ DOMAIN factoryResult.val
         = (Overridden \cup DOMAIN GeneratedFields) \ {"phoneNumber"}
    /\ \A k \in DOMAIN factoryResult.val :
         factoryResult.val[k]
           = IF k \in Overridden
               THEN factoryCall.overrides.val[k]
               ELSE GeneratedFields[k]

C17_Witness ==
  /\ factoryCall.name = "generateMinimalUser"
  /\ "phoneNumber" \in Overridden
  /\ factoryCall.overrides.val["phoneNumber"] = Str("555-0199")
  /\ factoryResult.val["email"] = Str("custom@example.com")
  /\ factoryResult.val["lastName"] = Str("Nowak")

\* the number of times fn has been invoked so far
Invocations == Cardinality({k \in DOMAIN trace : trace[k].ev = "fn"})

\* every invocation of fn has settled, except the one being awaited
InvocationsSettle ==
  Invocations = Len(settled) + (IF pc = "fn" THEN 1 ELSE 0)

\* the invocations counted whatever their completion was
InvocationsCountThrows ==
  \A i \in DOMAIN settled : trace[2 * i - 1] = FnEvent(i)

\* the number of attempts a call with this maxAttempts allows
AttemptsAllowed == IF maxAttempts < 0 THEN 0 ELSE maxAttempts

(***************************************************************************)
(* C18 (as stated)  retryUntilStatus invokes fn at most maxAttempts times, *)
(* attempts that throw counted like attempts that return an unexpected     *)
(* status, and when the call has completed and no attempt returned the     *)
(* expected status it has invoked fn exactly maxAttempts times.            *)
(***************************************************************************)
C18_InvocationsBounded ==
  (pc # "idle") =>
    /\ InvocationsSettle
    /\ InvocationsCountThrows
    /\ Invocations <= maxAttempts
    /\ (pc = "done" /\ NoneSucceeded) => (Invocations = maxAttempts)

(***************************************************************************)
(* C18 (amended)  for maxAttempts >= 0 retryUntilStatus invokes fn at most *)
(* maxAttempts times, attempts that throw counted like attempts that       *)
(* return an unexpected status, and exactly maxAttempts times when the     *)
(* call has completed and no attempt returned the expected status; for a   *)
(* negative maxAttempts it never invokes fn.                               *)
(***************************************************************************)
C18_InvocationsBoundedNonNegative ==
  (pc # "idle") =>
    /\ InvocationsSettle
    /\ InvocationsCountThrows
    /\ Invocations <= AttemptsAllowed
    /\ (pc = "done" /\ NoneSucceeded) => (Invocations = AttemptsAllowed)

C18_Witness ==
  /\ pc = "done"
  /\ maxAttempts = 3
  /\ NoneSucceeded
  /\ Invocations = 3
  /\ settled[1].completion = "throw"
  /\ settled[2].completion = "normal"
  /\ settled[3].completion = "throw"

Threw(i) == settled[i].completion = "throw"

\* the exception of attempt i was caught and not rethrown: the delay of
\* attempt i was started, the call has not completed while it runs, and once
\* it has elapsed fn is invoked for attempt i + 1
Swallowed(i) ==
  /\ Len(trace) >= 2 * i
  /\ trace[2 * i] = DelayEvent(i, delayMs)
  /\ (Len(trace) = 2 * i) => (pc = "delay" /\ attempt = i)
  /\ (Len(trace) > 2 * i) => (trace[2 * i + 1] = FnEvent(i + 1))

\* the exception of attempt i is what the call has thrown
Propagated(i) ==
  /\ pc = "done"
  /\ i = Len(settled)
  /\ outcome = settled[i]
  /\ outcome.value \in FnErrors(i)
  /\ outcome.value # Error(FailureMessage(expectedStatus, maxAttempts,
                                          lastResponse))
  /\ ~StartsWith(outcome.value.message, "Failed to get status")
  /\ Len(trace) = 2 * i - 1

(***************************************************************************)
(* C19  an exception thrown by fn on an attempt before the last is         *)
(* swallowed and followed by a delay of delayMs and a further attempt; an  *)
(* exception thrown by fn on attempt maxAttempts is thrown to the caller   *)
(* as that same error, not as the generic "Failed to get status" Error.    *)
(***************************************************************************)
C19_ExceptionHandling ==
  \A i \in DOMAIN settled :
    Threw(i) =>
      /\ (i < maxAttempts) => Swallowed(i)
      /\ (i = maxAttempts) => Propagated(i)
      /\ i <= maxAttempts

C19_Witness ==
  /\ maxAttempts = 2
  /\ delayMs = 1000
  /\ Len(settled) = 2
  /\ Threw(1)
  /\ Swallowed(1)
  /\ Threw(2)
  /\ Propagated(2)
  /\ settled[1].value.message = "socket hang up"
  /\ outcome.value.message = "Request timed out"

\* the trace is fn, delay, fn, delay, ...: it starts with the first
\* invocation and exactly one delay of delayMs lies between attempt n and
\* attempt n + 1
Alternates ==
  \A k \in DOMAIN trace :
    trace[k] = IF k % 2 = 1
                 THEN FnEvent((k + 1) \div 2)
                 ELSE DelayEvent(k \div 2, delayMs)

\* a delay is running exactly when the trace ends with it, and it follows an
\* attempt before the last that threw or returned an unexpected status
DelayFollowsFailure ==
  \A k \in DOMAIN trace :
    (trace[k].ev = "delay") =>
      /\ trace[k].attempt < maxAttempts
      /\ trace[k].attempt \in DOMAIN settled
      /\ ~Succeeded(trace[k].attempt)
      /\ (k = Len(trace)) <=> (pc = "delay" /\ attempt = trace[k].attempt)

\* the call has completed without a delay after its last invocation of fn
NoTrailingDelay ==
  (pc = "done") => (trace = <<>> \/ trace[Len(trace)].ev = "fn")

(***************************************************************************)
(* C20  between any two consecutive invocations of fn exactly one delay of *)
(* delayMs elapses, whether the earlier attempt returned an unexpected     *)
(* status or threw, and no delay is taken before the first attempt, after  *)
(* the final attempt or after a successful attempt.                        *)
(***************************************************************************)
C20_DelayOrdering ==
  /\ Alternates
  /\ DelayFollowsFailure
  /\ NoTrailingDelay

C20_Witness ==
  /\ pc = "done"
  /\ maxAttempts = 3
  /\ delayMs = 50
  /\ Len(trace) = 5
  /\ settled[1].completion = "normal"
  /\ Threw(2)
  /\ settled[3].completion = "normal"
  /\ ~Succeeded(3)
  /\ outcome.completion = "throw"

\* the call has been made
RetryCalled == pc # "idle"

\* the call has returned a response or thrown
Completed ==
  /\ pc = "done"
  /\ \/ outcome.completion = "normal" /\ outcome.value.type = "response"
     \/ outcome.completion = "throw" /\ outcome.value.type = "error"

\* fn was never invoked and the generic Error was thrown
ThrewGenericUninvoked ==
  /\ Completed
  /\ Invocations = 0
  /\ settled = <<>>
  /\ outcome = Throw(Error(FailureMessage(expectedStatus, maxAttempts,
                                          Undefined)))

(***************************************************************************)
(* C21  retryUntilStatus terminates: for every maxAttempts, 0 and negative *)
(* values included, and every fn each of whose calls returns or throws,    *)
(* the call eventually returns a response or throws; with maxAttempts <= 0 *)
(* fn is never invoked and the generic Error is thrown.                    *)
(***************************************************************************)
C21_Terminates ==
  /\ RetryCalled ~> Completed
  /\ []((RetryCalled /\ maxAttempts <= 0) => ThrewGenericUninvoked)

C21_Witness ==
  /\ Completed
  /\ maxAttempts = 3
  /\ Len(settled) = 3
  /\ Len(trace) = 5
  /\ NoneSucceeded
  /\ outcome.completion = "throw"
  /\ outcome.value.id = 0

\* the current environment: ENV, 'local' when ENV is unset or empty
CurrentEnv == IF ENV = Undefined \/ ENV = Str("") THEN "local" ELSE ENV.val

\* two characters that are the same letter in either case
SameLetter(c, d) == c = d \/ LowerChar(c) = d \/ c = LowerChar(d)

\* two strings that are equal ignoring letter case
EqualIgnoringCase(a, b) ==
  /\ Len(a) = Len(b)
  /\ \A i \in 1..Len(a) : SameLetter(SubSeq(a, i, i), SubSeq(b, i, i))

\* the bug is to be marked in the current environment
Affects(bug) ==
  \/ bug.environments = Undefined
  \/ bug.environments.val = <<>>
  \/ \E i \in DOMAIN bug.environments.val :
       EqualIgnoringCase(bug.environments.val[i], CurrentEnv)

\* the bugs listed in the config of the test, none when it has no list
ListedBugs ==
  IF testConfig.knownBugs = Undefined THEN <<>> ELSE testConfig.knownBugs.val

MarkedBugs == SelectSeq(ListedBugs, Affects)

IsKnownBugAnnotation(ann) == StartsWith(ann.type, "Known Bug ")

\* the 'Known Bug <id>' annotations of the test, in the order they were added
KnownBugAnnotations == SelectSeq(annotations, IsKnownBugAnnotation)

(***************************************************************************)
(* C22  markKnownBugs marks a listed bug if its environments list is       *)
(* absent or empty, and otherwise exactly when some listed environment     *)
(* equals the current environment (ENV, 'local' by default) ignoring       *)
(* letter case: once setupTest has run, the test has one 'Known Bug <id>'  *)
(* annotation and one fail(true) flag for each marked bug, in list order,  *)
(* and neither annotation nor flag when no bug is marked.                  *)
(***************************************************************************)
C22_KnownBugsEnvironmentFilter ==
  (phase = "setup") =>
    /\ Len(KnownBugAnnotations) = Len(MarkedBugs)
    /\ \A i \in DOMAIN MarkedBugs :
         KnownBugAnnotations[i].type = "Known Bug " \o MarkedBugs[i].bugId
    /\ Len(failCalls) = Len(MarkedBugs)
    /\ \A i \in DOMAIN failCalls : failCalls[i].condition = TRUE
    /\ (MarkedBugs = <<>>) => (failCalls = <<>>)

C22_Witness ==
  /\ phase = "setup"
  /\ ENV = Str("Staging")
  /\ Len(ListedBugs) = 3
  /\ Len(MarkedBugs) = 1
  /\ MarkedBugs[1].bugId = "BUG-7"
  /\ Len(failCalls) = 1
  /\ AnnotatedAs("Known Bug BUG-7")
  /\ ~AnnotatedAs("Known Bug BUG-5")

\* the fields of the describe config in the order the claim gives, each with
\* the type of the annotation it is recorded under
HookFields ==
  <<[field |-> "suiteDescription", type |-> "Suite Description"],
    [field |-> "suite", type |-> "suite"],
    [field |-> "epic", type |-> "Epic"],
    [field |-> "feature", type |-> "Feature"],
    [field |-> "story", type |-> "Story"]>>

Configured(f) == Truthy(describeConfig[f.field])

ConfiguredFields == SelectSeq(HookFields, Configured)

\* the annotations the hook leaves: one per configured field, in that order
HookAnnotations ==
  [i \in DOMAIN ConfiguredFields |->
     [type |-> ConfiguredFields[i].type,
      description |-> describeConfig[ConfiguredFields[i].field].val]]

IsDescriptionCall(call) == call.method = "description"

DescriptionCalls == SelectSeq(allureCalls, IsDescriptionCall)

\* the last description handed to Allure
LastDescription == DescriptionCalls[Len(DescriptionCalls)].args

\* the description Allure must end up with for the test-case text
FullDescription(text) ==
  IF Truthy(describeConfig.suiteDescription)
    THEN "Suite Description:\n" \o describeConfig.suiteDescription.val
           \o "\n\nTest Case Description:\n" \o text
    ELSE "Test Case Description:\n" \o text

(***************************************************************************)
(* C23  the beforeEach hook of setupTestDescribe records the configured    *)
(* fields in the order suiteDescription, suite, epic, feature, story, one  *)
(* at each of its awaits, and has recorded all of them before the test     *)
(* body runs; when setupTest then applies a                                *)
(* description text, the last description set on Allure is 'Suite          *)
(* Description:\n<suite>\n\nTest Case Description:\n<text>' if a suite      *)
(* description was recorded and 'Test Case Description:\n<text>' if not.   *)
(***************************************************************************)
C23_SuiteDescriptionOrdering ==
  /\ (phase \in {"idle", "described"}) => (annotations = <<>>)
  /\ (phase = "hook") =>
       /\ Len(annotations) + Len(continuation) = Len(HookAnnotations)
       /\ annotations = SubSeq(HookAnnotations, 1, Len(annotations))
  /\ (phase \in {"hooked", "running", "setup"}) =>
       /\ Len(annotations) >= Len(HookAnnotations)
       /\ SubSeq(annotations, 1, Len(HookAnnotations)) = HookAnnotations
  /\ (phase = "hooked" /\ direct = <<>>) => (annotations = HookAnnotations)
  /\ (phase \in {"running", "setup"}) =>
       /\ IF Truthy(testConfig.description)
            THEN /\ DescriptionCalls # <<>>
                 /\ LastDescription
                      = <<FullDescription(testConfig.description.val)>>
            ELSE DescriptionCalls = <<>>

C23_Witness ==
  /\ phase = "setup"
  /\ Len(HookAnnotations) = 5
  /\ annotations[1].type = "Suite Description"
  /\ annotations[5].type = "Story"
  /\ testConfig.description = Str("Validate successful registration")
  /\ LastDescription
       = <<"Suite Description:\nRegistration tests\n\nTest Case Description:\nValidate successful registration">>

\* the HTTP verb a method of the client stands for
HttpVerb(method) ==
  CASE method = "get" -> "GET"
    [] method = "post" -> "POST"
    [] method = "put" -> "PUT"
    [] method = "patch" -> "PATCH"
    [] method = "delete" -> "DELETE"

EventsOf(kind) == {i \in DOMAIN clientTrace : clientTrace[i].ev = kind}

\* the call at position i wrote its request log entry and then issued one
\* request of its own verb with the url and the options it was given
RequestSent(i) ==
  LET c == clientTrace[i]
  IN  /\ Len(clientTrace) >= i + 2
      /\ clientTrace[i + 1]
           = LogEvent(HttpVerb(c.method) \o " request to: " \o c.url)
      /\ clientTrace[i + 2] = RequestEvent(c.method, c.url, c.options)
      /\ (Len(clientTrace) = i + 2) => (clientPc = "awaiting")

\* the request of the call at position i resolved: the status log entry
\* follows the response and the method then returns that response
ResponseReturned(i) ==
  LET response == clientTrace[i + 3].value
  IN  /\ Len(clientTrace) >= i + 5
      /\ response.type = "response"
      /\ clientTrace[i + 4]
           = LogEvent("Response status: " \o ToString(response.status))
      /\ clientTrace[i + 5] = ReturnEvent(response)
      /\ (Len(clientTrace) > i + 5) => (clientTrace[i + 6].ev = "call")
      /\ (Len(clientTrace) = i + 5) =>
           (clientPc = "done" /\ clientOutcome = Normal(response))

\* the request of the call at position i rejected: the method throws that
\* error and writes no further log entry
ErrorPropagated(i) ==
  LET error == clientTrace[i + 3].value
  IN  /\ Len(clientTrace) >= i + 4
      /\ error.type = "error"
      /\ clientTrace[i + 4] = ThrowEvent(error)
      /\ (Len(clientTrace) > i + 4) => (clientTrace[i + 5].ev = "call")
      /\ (Len(clientTrace) = i + 4) =>
           (clientPc = "done" /\ clientOutcome = Throw(error))

(***************************************************************************)
(* C24  each call of get, post, put, patch or delete issues exactly one    *)
(* request of the same HTTP verb on the wrapped request context with the   *)
(* url and options given, and returns the context's response unchanged;    *)
(* the request log entry is written before the request is sent, the status *)
(* log entry after the response arrives and before the method returns; an  *)
(* error from the context propagates without a status log entry.           *)
(***************************************************************************)
C24_ApiClientPassThrough ==
  /\ Cardinality(EventsOf("call")) = clientCalls
  /\ Cardinality(EventsOf("request")) = clientCalls
  /\ Cardinality(EventsOf("log"))
       = clientCalls + Cardinality(EventsOf("resolve"))
  /\ (clientTrace # <<>>) => (clientTrace[1].ev = "call")
  /\ \A i \in EventsOf("call") :
       /\ RequestSent(i)
       /\ (Len(clientTrace) > i + 2) =>
            /\ clientTrace[i + 3].ev \in {"resolve", "reject"}
            /\ (clientTrace[i + 3].ev = "resolve") => ResponseReturned(i)
            /\ (clientTrace[i + 3].ev = "reject") => ErrorPropagated(i)

C24_Witness ==
  /\ clientPc = "done"
  /\ clientCalls = 2
  /\ clientTrace[1] = CallEvent("patch", "/api/Cart/items/1",
                                Object([data |-> "payload"]))
  /\ clientTrace[4].ev = "reject"
  /\ clientTrace[6] = CallEvent("delete", "/api/Products", Undefined)
  /\ clientTrace[8] = RequestEvent("delete", "/api/Products", Undefined)
  /\ clientOutcome = Normal(Response(404, 2))

\* a run of the worker's test has failed on the expectation
ExpectationFailed(w, message) ==
  \E i \in DOMAIN cartTests[w].failures : cartTests[w].failures[i] = message

(***************************************************************************)
(* C25  with the two cart tests run by different workers against the one   *)
(* cart of the account 'User', in every interleaving the 'cart contains    *)
(* exactly 1 item' expectation of cartPostRegular TC 001P and the 'cart    *)
(* has 3 items before clearing' expectation of cartDeleteRegular TC 003P   *)
(* hold: no run of a test, first run or retry, has failed on one of them.  *)
(***************************************************************************)
C25_CartAssertionsHold ==
  \A w \in Workers :
    /\ ~ExpectationFailed(w, "Cart should contain exactly 1 item")
    /\ ~ExpectationFailed(w, "Cart should have 3 items before clearing")

====
